---- MODULE Spec2Model ----
(***************************************************************************)
(* Model of the material node-tree search of the glTF exporter              *)
(* (gltf2_blender_search_node_tree.py): the NodeNav cursor, the constant /  *)
(* factor extraction and the alpha detectors, over a bounded family of      *)
(* shader node graphs with reroutes and node groups.                        *)
(***************************************************************************)
EXTENDS Integers, Sequences, FiniteSets, TLC

VARIABLES graph, scen, heap, nav, nav2, pre, last, pend, sock

vars == <<graph, scen, heap, nav, nav2, pre, last, pend, sock>>

(***************************************************************************)
(* Bounds of the graph family.                                              *)
(***************************************************************************)
\* longest chain of reroute / group-boundary hops put on one link
MaxHops == 2
\* deepest nesting of the group that holds the material's shading node
MaxDepth == 1
\* number of interface sockets of every node group
GroupSockets == 2

(***************************************************************************)
(* Python values.  Floats are fixed point with Unit = 1.0; a float is a     *)
(* one element list of digits, a list value keeps its components.           *)
(***************************************************************************)
Unit == 10

PyNone == [kind |-> "None", val |-> <<>>, str |-> ""]
PyFloat(x) == [kind |-> "float", val |-> <<x>>, str |-> ""]
PyList(s) == [kind |-> "list", val |-> s, str |-> ""]
PyStr(s) == [kind |-> "str", val |-> <<>>, str |-> s]
\* an exception leaving the called function
PyRaise == [kind |-> "raise", val |-> <<>>, str |-> ""]

(***************************************************************************)
(* The host graph (bpy): nodes, sockets, links.  A node is named by a       *)
(* triple; a socket by its node, its ordinal and its direction.             *)
(***************************************************************************)
NoNode == <<"NONE", 0, 0>>
Material == <<"MATERIAL", 0, 0>>

Sock(n, i, o) == [node |-> n, idx |-> i, is_output |-> o]
InSock(n, i) == Sock(n, i, FALSE)
OutSock(n, i) == Sock(n, i, TRUE)
\* Python's None where a socket is expected
NoSocket == Sock(NoNode, 0, FALSE)

Link(fn, fi, tn, ti) ==
    [from_node |-> fn, from_socket |-> OutSock(fn, fi),
     to_node |-> tn, to_socket |-> InSock(tn, ti)]

SocketRec(ty, dv, nm, ident) ==
    [type |-> ty, default_value |-> dv, name |-> nm, identifier |-> ident]

NodeRec(ty, path, op, nm, ins, outs) ==
    [type |-> ty,
     path |-> path,
     operation |-> IF ty = "MATH" THEN op ELSE "",
     blend_type |-> IF ty = "MIX" THEN op ELSE "",
     data_type |-> IF ty = "MIX" THEN "RGBA" ELSE "",
     attribute_type |-> IF ty = "ATTRIBUTE" THEN "GEOMETRY" ELSE "",
     attribute_name |-> IF ty = "ATTRIBUTE" THEN nm ELSE "",
     layer_name |-> IF ty = "VERTEX_COLOR" THEN nm ELSE "",
     has_tree |-> ty = "GROUP",
     inputs |-> ins,
     outputs |-> outs]

\* the value an unlinked socket of a type carries when nothing else is said
Filler(ty) ==
    CASE ty = "RGBA" -> <<5, 5, 5, Unit>>
      [] ty = "VECTOR" -> <<0, 0, 0>>
      [] ty = "VALUE" -> <<5>>
      [] OTHER -> <<>>

\* the value of the sockets of a group interface that no link of the
\* idiom uses
Decoy(ty) ==
    CASE ty = "RGBA" -> <<7, 7, 7, Unit>>
      [] ty = "VECTOR" -> <<7, 7, 7>>
      [] ty = "VALUE" -> <<7>>
      [] OTHER -> <<>>

\* the interface ordinal the links of the idiom go through
Ord == GroupSockets - 1

GroupIdx == 0 .. (GroupSockets - 1)

IfaceName(i) == IF i = 0 THEN "Socket" ELSE "Value"

IfaceSockets(ty, dv) ==
    [i \in GroupIdx |->
        SocketRec(ty, IF i = Ord THEN dv ELSE Decoy(ty), IfaceName(i),
                  IfaceName(i))]

EmptyFrag == [nodes |-> <<>>, links |-> {}]

Merge(a, b) == [nodes |-> a.nodes @@ b.nodes, links |-> a.links \cup b.links]

One(id, rec) == [nodes |-> (id :> rec), links |-> {}]

(***************************************************************************)
(* A route decorates one link of an idiom: read from the consuming input    *)
(* towards the producer, "R" is a reroute node, "D" a group instance whose  *)
(* output feeds the link (the producer side lies inside the group) and "A"  *)
(* a group-input node (the consumer side lies inside a group and the        *)
(* producer side outside it).                                               *)
(***************************************************************************)
RECURSIVE Hops(_, _, _, _, _, _, _, _)
Hops(route, i, cur, path, nR, nG, dv, ty) ==
    IF i > Len(route)
    THEN [frag |-> EmptyFrag, cur |-> cur, path |-> path]
    ELSE
      CASE route[i] = "R" ->
             LET id == <<"RR", nR + 1, 0>>
                 rec == NodeRec("REROUTE", path, "", "",
                                (0 :> SocketRec(ty, dv, "Input", "Input")),
                                (0 :> SocketRec(ty, dv, "Output", "Output")))
                 rest == Hops(route, i + 1, InSock(id, 0), path, nR + 1, nG,
                              dv, ty)
             IN  [rest EXCEPT !.frag =
                    Merge(Merge(One(id, rec),
                                [nodes |-> <<>>,
                                 links |-> {Link(id, 0, cur.node, cur.idx)}]),
                          rest.frag)]
        [] route[i] = "D" ->
             LET gid == <<"G", nG + 1, 0>>
                 goid == <<"GO", nG + 1, 0>>
                 grec == NodeRec("GROUP", path, "", "",
                                 IfaceSockets(ty, dv), IfaceSockets(ty, dv))
                 gorec == NodeRec("GROUP_OUTPUT", path \o <<gid>>, "", "",
                                  IfaceSockets(ty, dv), <<>>)
                 rest == Hops(route, i + 1, InSock(goid, Ord),
                              path \o <<gid>>, nR, nG + 1, dv, ty)
             IN  [rest EXCEPT !.frag =
                    Merge(Merge(Merge(One(gid, grec), One(goid, gorec)),
                                [nodes |-> <<>>,
                                 links |-> {Link(gid, Ord, cur.node, cur.idx)}]),
                          rest.frag)]
        [] route[i] = "A" ->
             LET giid == <<"GI", nG + 1, 0>>
                 girec == NodeRec("GROUP_INPUT", path, "", "",
                                  <<>>, IfaceSockets(ty, dv))
                 outer == path[Len(path)]
                 rest == Hops(route, i + 1, InSock(outer, Ord),
                              SubSeq(path, 1, Len(path) - 1), nR, nG + 1,
                              dv, ty)
             IN  [rest EXCEPT !.frag =
                    Merge(Merge(One(giid, girec),
                                [nodes |-> <<>>,
                                 links |-> {Link(giid, Ord, cur.node, cur.idx)}]),
                          rest.frag)]

\* the nesting depth never goes below the top level
RECURSIVE ValidRoute(_, _, _)
ValidRoute(route, i, d) ==
    IF i > Len(route) THEN TRUE
    ELSE CASE route[i] = "R" -> ValidRoute(route, i + 1, d)
           [] route[i] = "D" -> ValidRoute(route, i + 1, d + 1)
           [] route[i] = "A" -> d > 0 /\ ValidRoute(route, i + 1, d - 1)

HopKinds == {"R", "D", "A"}

\* the routes of an idiom whose shading node lies d0 groups deep: at the
\* top level all that stay there, deeper down those that leave all d0 groups
Routes(d0) ==
    {r \in UNION {[1 .. n -> HopKinds] : n \in 0 .. MaxHops} :
        /\ ValidRoute(r, 1, d0)
        /\ d0 > 0 => (r = <<>> \/ ~ValidRoute(r, 1, d0 - 1))}

(***************************************************************************)
(* Idioms.  An idiom is the expression feeding one input of the shading     *)
(* node: "DEFAULT" is an unlinked input with the given default value, every *)
(* other kind is a node whose inputs are fed by the argument expressions.   *)
(***************************************************************************)
Expr(kind, op, val, name, args) ==
    [kind |-> kind, op |-> op, val |-> val, name |-> name, args |-> args]

Def(v) == Expr("DEFAULT", "", v, "", <<>>)
Rgb(c) == Expr("RGB", "", c, "", <<>>)
Val(v) == Expr("VALUE", "", <<v>>, "", <<>>)
Tex == Expr("TEX_IMAGE", "", <<>>, "", <<>>)
Attr(nm) == Expr("ATTRIBUTE", "", <<>>, nm, <<>>)
VCol(nm) == Expr("VERTEX_COLOR", "", <<>>, nm, <<>>)
Math(op, a, b) == Expr("MATH", op, <<>>, "", <<a, b>>)
Mix(blend, f, a, b) == Expr("MIX", blend, <<>>, "", <<f, a, b>>)

\* the input sockets of a node kind, as bpy declares them
InputsOf(kind) ==
    CASE kind = "MATH" ->
           (0 :> SocketRec("VALUE", <<5>>, "Value", "Value")) @@
           (1 :> SocketRec("VALUE", <<5>>, "Value", "Value_001"))
      [] kind = "MIX" ->
           (0 :> SocketRec("VALUE", <<5>>, "Factor", "Factor_Float")) @@
           (1 :> SocketRec("VECTOR", <<5, 5, 5>>, "Factor", "Factor_Vector")) @@
           (2 :> SocketRec("VALUE", <<0>>, "A", "A_Float")) @@
           (3 :> SocketRec("VALUE", <<0>>, "B", "B_Float")) @@
           (4 :> SocketRec("VECTOR", <<0, 0, 0>>, "A", "A_Vector")) @@
           (5 :> SocketRec("VECTOR", <<0, 0, 0>>, "B", "B_Vector")) @@
           (6 :> SocketRec("RGBA", <<5, 5, 5, Unit>>, "A", "A_Color")) @@
           (7 :> SocketRec("RGBA", <<5, 5, 5, Unit>>, "B", "B_Color"))
      [] kind = "TEX_IMAGE" ->
           (0 :> SocketRec("VECTOR", <<0, 0, 0>>, "Vector", "Vector"))
      [] kind = "BSDF_PRINCIPLED" ->
           (0 :> SocketRec("RGBA", <<8, 8, 8, Unit>>, "Base Color", "Base Color")) @@
           (1 :> SocketRec("VALUE", <<Unit>>, "Alpha", "Alpha")) @@
           (2 :> SocketRec("VECTOR", <<0, 0, 0>>, "Normal", "Normal")) @@
           (3 :> SocketRec("SHADER", <<>>, "Shader", "Shader")) @@
           (4 :> SocketRec("INT", <<3>>, "Count", "Count"))
      [] OTHER -> <<>>

OutputsOf(e) ==
    CASE e.kind = "RGB" -> (0 :> SocketRec("RGBA", e.val, "Color", "Color"))
      [] e.kind = "VALUE" -> (0 :> SocketRec("VALUE", e.val, "Value", "Value"))
      [] e.kind = "TEX_IMAGE" ->
           (0 :> SocketRec("RGBA", <<0, 0, 0, 0>>, "Color", "Color")) @@
           (1 :> SocketRec("VALUE", <<0>>, "Alpha", "Alpha"))
      [] e.kind = "ATTRIBUTE" ->
           (0 :> SocketRec("RGBA", <<0, 0, 0, 0>>, "Color", "Color")) @@
           (1 :> SocketRec("VECTOR", <<0, 0, 0>>, "Vector", "Vector")) @@
           (2 :> SocketRec("VALUE", <<0>>, "Fac", "Fac")) @@
           (3 :> SocketRec("VALUE", <<0>>, "Alpha", "Alpha"))
      [] e.kind = "VERTEX_COLOR" ->
           (0 :> SocketRec("RGBA", <<0, 0, 0, 0>>, "Color", "Color")) @@
           (1 :> SocketRec("VALUE", <<0>>, "Alpha", "Alpha"))
      [] e.kind = "MATH" -> (0 :> SocketRec("VALUE", <<0>>, "Value", "Value"))
      [] e.kind = "MIX" ->
           (0 :> SocketRec("VALUE", <<0>>, "Result", "Result_Float")) @@
           (1 :> SocketRec("VECTOR", <<0, 0, 0>>, "Result", "Result_Vector")) @@
           (2 :> SocketRec("RGBA", <<0, 0, 0, 0>>, "Result", "Result_Color"))
      [] e.kind = "BSDF_PRINCIPLED" ->
           (0 :> SocketRec("SHADER", <<>>, "BSDF", "BSDF"))
      [] OTHER -> <<>>

\* the output a node of the kind is linked from
OutIdx(kind) == IF kind = "MIX" THEN 2 ELSE 0

\* the input ordinal the j-th argument of an expression feeds
ArgSlot(kind, j) == IF kind = "MIX" THEN <<0, 6, 7>>[j] ELSE j - 1

\* links are numbered by the position of their source in the idiom
ChildCode(code, slot) == code * 10 + slot + 1

Decorated(dec, code) == dec.code = code /\ dec.route # <<>>

\* the inputs of the node of expression e, with the defaults its unlinked
\* arguments give
NodeInputs(e, code, dec) ==
    LET decl == InputsOf(e.kind)
        ArgOf(s) == {j \in 1 .. Len(e.args) : ArgSlot(e.kind, j) = s}
    IN  [s \in DOMAIN decl |->
            IF ArgOf(s) = {} THEN decl[s]
            ELSE LET a == e.args[CHOOSE j \in ArgOf(s) : TRUE]
                 IN  IF a.kind = "DEFAULT" /\ ~Decorated(dec, ChildCode(code, s))
                     THEN [decl[s] EXCEPT !.default_value = a.val]
                     ELSE [decl[s] EXCEPT !.default_value = Filler(decl[s].type)]]

RECURSIVE Source(_, _, _, _, _), Attach(_, _, _, _, _, _), Args(_, _, _, _, _)
\* expression e, numbered code, feeding the input socket cur of a node of
\* the tree at path
Source(e, code, cur, path, dec) ==
    IF e.kind = "DEFAULT" THEN EmptyFrag
    ELSE LET id == <<"N", code, 0>>
             rec == NodeRec(e.kind, path, e.op, e.name,
                            NodeInputs(e, code, dec), OutputsOf(e))
         IN  Merge(Merge(One(id, rec),
                         [nodes |-> <<>>,
                          links |-> {Link(id, OutIdx(e.kind), cur.node, cur.idx)}]),
                   Args(e, code, path, dec, 1))

Attach(e, code, cur, path, dec, ty) ==
    IF dec.code = code
    THEN LET h == Hops(dec.route, 1, cur, path, 0, 0,
                       IF e.kind = "DEFAULT" THEN e.val ELSE Filler(ty), ty)
         IN  Merge(h.frag, Source(e, code, h.cur, h.path, dec))
    ELSE Source(e, code, cur, path, dec)

Args(e, code, path, dec, j) ==
    IF j > Len(e.args) THEN EmptyFrag
    ELSE LET s == ArgSlot(e.kind, j)
         IN  Merge(Attach(e.args[j], ChildCode(code, s),
                          InSock(<<"N", code, 0>>, s), path, dec,
                          InputsOf(e.kind)[s].type),
                   Args(e, code, path, dec, j + 1))

\* the numbers of the links of an idiom
RECURSIVE LinkCodes(_, _)
LinkCodes(e, code) ==
    {code} \cup UNION {LinkCodes(e.args[j], ChildCode(code, ArgSlot(e.kind, j))) :
                          j \in 1 .. Len(e.args)}

\* the expression at a link and the type of the input it feeds
RECURSIVE FindLink(_, _, _, _)
FindLink(e, code, ty, target) ==
    IF code = target THEN {[e |-> e, ty |-> ty]}
    ELSE UNION {FindLink(e.args[j], ChildCode(code, ArgSlot(e.kind, j)),
                         InputsOf(e.kind)[ArgSlot(e.kind, j)].type, target) :
                   j \in 1 .. Len(e.args)}

RootId == <<"N", 0, 0>>

\* the groups around the shading node, outermost first
Ambient(d0) == [k \in 1 .. d0 |-> <<"AG", k, 0>>]

(***************************************************************************)
(* The graph of a scenario: the shading node (inside d0 nested groups) with *)
(* input r fed by idiom e, whose link number code goes through route.       *)
(***************************************************************************)
Build(s) ==
    LET dec == [code |-> s.code, route |-> s.route]
        root == Expr("BSDF_PRINCIPLED", "", <<>>, "", <<>>)
        rootE == [root EXCEPT !.args = <<s.e>>]
        decl == InputsOf("BSDF_PRINCIPLED")
        found == FindLink(s.e, s.r + 1, decl[s.r].type, s.code)
        fl == IF found = {} THEN [e |-> s.e, ty |-> decl[s.r].type]
              ELSE CHOOSE x \in found : TRUE
        dv == IF fl.e.kind = "DEFAULT" THEN fl.e.val ELSE Filler(fl.ty)
        ins == [i \in DOMAIN decl |->
                  IF i = s.r /\ s.e.kind = "DEFAULT" /\ ~Decorated(dec, s.r + 1)
                  THEN [decl[i] EXCEPT !.default_value = s.e.val]
                  ELSE decl[i]]
        path == Ambient(s.d0)
        rootFrag == One(RootId, NodeRec("BSDF_PRINCIPLED", path, "", "", ins,
                                        OutputsOf(root)))
        RECURSIVE Amb(_)
        Amb(k) == IF k > s.d0 THEN EmptyFrag
                  ELSE Merge(One(<<"AG", k, 0>>,
                                 NodeRec("GROUP", SubSeq(path, 1, k - 1), "", "",
                                         IfaceSockets(fl.ty, dv),
                                         IfaceSockets(fl.ty, dv))),
                             Amb(k + 1))
    IN  Merge(Merge(rootFrag, Amb(1)),
              Attach(s.e, s.r + 1, InSock(RootId, s.r), path, dec,
                     decl[s.r].type))


(***************************************************************************)
(* Accessors of the host graph.                                             *)
(***************************************************************************)
\* socket.is_linked of an input socket
IsLinked(g, soc) == \E l \in g.links : l.to_socket = soc

\* socket.links[0] of a linked input socket
FirstLink(g, soc) == CHOOSE l \in g.links : l.to_socket = soc

InputRec(g, soc) == g.nodes[soc.node].inputs[soc.idx]

OutputRec(g, soc) == g.nodes[soc.node].outputs[soc.idx]

NodeType(g, n) == IF n \in DOMAIN g.nodes THEN g.nodes[n].type ELSE "NONE"

\* the nodes of group.node_tree
TreeNodes(g, group) ==
    {n \in DOMAIN g.nodes : g.nodes[n].path = g.nodes[group].path \o <<group>>}

(***************************************************************************)
(* Input selectors: None, an ordinal, a name (hash: written with a leading  *)
(* '#', which selects by identifier), or a socket.                          *)
(***************************************************************************)
Selector(kind, i, hash, text, soc) ==
    [kind |-> kind, i |-> i, hash |-> hash, text |-> text, soc |-> soc]

SelNone == Selector("none", 0, FALSE, "", NoSocket)
SelInt(i) == Selector("int", i, FALSE, "", NoSocket)
SelName(nm) == Selector("str", 0, FALSE, nm, NoSocket)
SelIdent(id) == Selector("str", 0, TRUE, id, NoSocket)
SelSock(soc) == Selector("socket", 0, FALSE, "", soc)

\* the socket node.inputs[name] finds: the first one of that name
ByName(g, n, nm) ==
    LET ins == g.nodes[n].inputs
        hits == {i \in DOMAIN ins : ins[i].name = nm}
    IN  IF hits = {} THEN NoSocket
        ELSE InSock(n, CHOOSE i \in hits : \A j \in hits : i <= j)

ByIdent(g, n, id) ==
    LET ins == g.nodes[n].inputs
        hits == {i \in DOMAIN ins : ins[i].identifier = id}
    IN  IF hits = {} THEN NoSocket
        ELSE InSock(n, CHOOSE i \in hits : \A j \in hits : i <= j)

\* select_input_socket neither fails an assertion nor a lookup
CanSelect(g, c, sel) ==
    CASE sel.kind = "none" -> TRUE
      [] sel.kind = "socket" ->
           /\ sel.soc.node = c.node
           /\ sel.soc.idx \in DOMAIN g.nodes[c.node].inputs
      [] sel.kind = "int" -> sel.i \in DOMAIN g.nodes[c.node].inputs
      [] sel.kind = "str" ->
           \/ sel.hash /\ ByIdent(g, c.node, sel.text) # NoSocket
           \* no socket of the graphs has a name that starts with '#'
           \/ ~sel.hash /\ ByName(g, c.node, sel.text) # NoSocket

select_input_socket(g, c, sel) ==
    CASE sel.kind = "none" -> c
      [] sel.kind = "socket" -> [c EXCEPT !.in_socket = sel.soc]
      [] sel.kind = "int" -> [c EXCEPT !.in_socket = InSock(c.node, sel.i)]
      [] sel.kind = "str" ->
           IF sel.hash /\ ByIdent(g, c.node, sel.text) # NoSocket
           THEN [c EXCEPT !.in_socket = ByIdent(g, c.node, sel.text)]
           ELSE [c EXCEPT !.in_socket = ByName(g, c.node, sel.text)]

(***************************************************************************)
(* NodeNav.  A cursor holds a reference to its stack, a list object of the  *)
(* heap h; descend and ascend change that list in place.                    *)
(***************************************************************************)
Frame(n, soc) == [node |-> n, socket |-> soc]

NewRef(h) == (CHOOSE r \in DOMAIN h : \A q \in DOMAIN h : q <= r) + 1

\* NodeNav.__init__
NodeNavInit(h, node, in_soc, out_soc) ==
    LET r == NewRef(h)
    IN  [h |-> h @@ (r :> <<>>),
         c |-> [node |-> node, in_socket |-> in_soc, out_socket |-> out_soc,
                stack |-> r, moved |-> FALSE]]

\* assign with self.stack = other.stack: the two cursors hold one list
assign_shares_stack(h, self, other) ==
    [h |-> h,
     c |-> [node |-> other.node, in_socket |-> other.in_socket,
            out_socket |-> other.out_socket, stack |-> other.stack,
            moved |-> other.moved]]

\* NodeNav.assign: self.stack is bound to a new list, the copy of other's
assign(h, self, other) ==
    LET r == NewRef(h)
    IN  [h |-> h @@ (r :> h[other.stack]),
         c |-> [node |-> other.node, in_socket |-> other.in_socket,
                out_socket |-> other.out_socket, stack |-> r,
                moved |-> other.moved]]

\* NodeNav.copy
copy(h, self) ==
    LET n == NodeNavInit(h, self.node, NoSocket, NoSocket)
    IN  assign(n.h, n.c, self)

get_out_socket_index(c) == c.out_socket.idx

descend(g, h, c) ==
    IF /\ c.node # NoNode
       /\ NodeType(g, c.node) = "GROUP"
       /\ g.nodes[c.node].has_tree
       /\ c.out_socket # NoSocket
    THEN LET i == get_out_socket_index(c)
             go == CHOOSE n \in TreeNodes(g, c.node) :
                       g.nodes[n].type = "GROUP_OUTPUT"
         IN  [h |-> [h EXCEPT ![c.stack] = Append(@, Frame(c.node, c.out_socket))],
              c |-> [c EXCEPT !.node = go, !.in_socket = InSock(go, i),
                              !.out_socket = NoSocket]]
    ELSE [h |-> h, c |-> c]

ascend(g, h, c) ==
    IF /\ h[c.stack] # <<>>
       /\ c.node # NoNode
       /\ NodeType(g, c.node) = "GROUP_INPUT"
       /\ c.out_socket # NoSocket
    THEN LET i == get_out_socket_index(c)
             st == h[c.stack]
             top == st[Len(st)]
         IN  [h |-> [h EXCEPT ![c.stack] = SubSeq(st, 1, Len(st) - 1)],
              c |-> [c EXCEPT !.node = top.node, !.out_socket = top.socket,
                              !.in_socket = InSock(top.node, i)]]
    ELSE [h |-> h, c |-> c]

\* move_back without line 272: moved keeps its old value
move_back_step_keeps_moved(g, h, c, in_soc) ==
    LET c1 == select_input_socket(g, c, in_soc)
    IN  IF c1.in_socket = NoSocket \/ ~IsLinked(g, c1.in_socket)
        THEN [h |-> h, c |-> c1, again |-> FALSE, sel |-> SelNone]
        ELSE LET link == FirstLink(g, c1.in_socket)
                 c2 == [c1 EXCEPT !.node = link.from_node,
                                  !.out_socket = link.from_socket,
                                  !.in_socket = NoSocket,
                                  !.moved = TRUE]
                 ty == NodeType(g, c2.node)
             IN  CASE ty = "REROUTE" ->
                        [h |-> h, c |-> c2, again |-> TRUE, sel |-> SelInt(0)]
                   [] ty = "GROUP" ->
                        LET d == descend(g, h, c2)
                        IN  [h |-> d.h, c |-> d.c, again |-> TRUE, sel |-> SelNone]
                   [] ty = "GROUP_INPUT" ->
                        LET a == ascend(g, h, c2)
                        IN  [h |-> a.h, c |-> a.c, again |-> TRUE, sel |-> SelNone]
                   [] OTHER ->
                        [h |-> h, c |-> c2, again |-> FALSE, sel |-> SelNone]

\* move_back without lines 288-289: a reroute is a node like any other
move_back_step_stops_at_reroute(g, h, c, in_soc) ==
    LET c1 == select_input_socket(g, [c EXCEPT !.moved = FALSE], in_soc)
    IN  IF c1.in_socket = NoSocket \/ ~IsLinked(g, c1.in_socket)
        THEN [h |-> h, c |-> c1, again |-> FALSE, sel |-> SelNone]
        ELSE LET link == FirstLink(g, c1.in_socket)
                 c2 == [c1 EXCEPT !.node = link.from_node,
                                  !.out_socket = link.from_socket,
                                  !.in_socket = NoSocket,
                                  !.moved = TRUE]
                 ty == NodeType(g, c2.node)
             IN  CASE ty = "GROUP" ->
                        LET d == descend(g, h, c2)
                        IN  [h |-> d.h, c |-> d.c, again |-> TRUE, sel |-> SelNone]
                   [] ty = "GROUP_INPUT" ->
                        LET a == ascend(g, h, c2)
                        IN  [h |-> a.h, c |-> a.c, again |-> TRUE, sel |-> SelNone]
                   [] OTHER ->
                        [h |-> h, c |-> c2, again |-> FALSE, sel |-> SelNone]

\* move_back whose reroute case calls itself before it has left the node
\* it is on
move_back_step_spins(g, h, c, in_soc) ==
    LET c1 == select_input_socket(g, [c EXCEPT !.moved = FALSE], in_soc)
    IN  IF c1.in_socket = NoSocket \/ ~IsLinked(g, c1.in_socket)
        THEN [h |-> h, c |-> c1, again |-> FALSE, sel |-> SelNone]
        ELSE LET link == FirstLink(g, c1.in_socket)
                 c2 == [c1 EXCEPT !.node = link.from_node,
                                  !.out_socket = link.from_socket,
                                  !.in_socket = NoSocket,
                                  !.moved = TRUE]
                 ty == NodeType(g, c2.node)
             IN  CASE ty = "REROUTE" ->
                        [h |-> h, c |-> [c1 EXCEPT !.moved = TRUE],
                         again |-> TRUE, sel |-> SelNone]
                   [] ty = "GROUP" ->
                        LET d == descend(g, h, c2)
                        IN  [h |-> d.h, c |-> d.c, again |-> TRUE, sel |-> SelNone]
                   [] ty = "GROUP_INPUT" ->
                        LET a == ascend(g, h, c2)
                        IN  [h |-> a.h, c |-> a.c, again |-> TRUE, sel |-> SelNone]
                   [] OTHER ->
                        [h |-> h, c |-> c2, again |-> FALSE, sel |-> SelNone]

\* one activation of move_back, up to its recursive call: again says that
\* the activation ends in the call self.move_back(sel)
move_back_step(g, h, c, in_soc) ==
    LET c1 == select_input_socket(g, [c EXCEPT !.moved = FALSE], in_soc)
    IN  IF c1.in_socket = NoSocket \/ ~IsLinked(g, c1.in_socket)
        THEN [h |-> h, c |-> c1, again |-> FALSE, sel |-> SelNone]
        ELSE LET link == FirstLink(g, c1.in_socket)
                 c2 == [c1 EXCEPT !.node = link.from_node,
                                  !.out_socket = link.from_socket,
                                  !.in_socket = NoSocket,
                                  !.moved = TRUE]
                 ty == NodeType(g, c2.node)
             IN  CASE ty = "REROUTE" ->
                        [h |-> h, c |-> c2, again |-> TRUE, sel |-> SelInt(0)]
                   [] ty = "GROUP" ->
                        LET d == descend(g, h, c2)
                        IN  [h |-> d.h, c |-> d.c, again |-> TRUE, sel |-> SelNone]
                   [] ty = "GROUP_INPUT" ->
                        LET a == ascend(g, h, c2)
                        IN  [h |-> a.h, c |-> a.c, again |-> TRUE, sel |-> SelNone]
                   [] OTHER ->
                        [h |-> h, c |-> c2, again |-> FALSE, sel |-> SelNone]

RECURSIVE move_back(_, _, _, _)
\* the end of the activation r of move_back: the recursive call, or the
\* return
move_back_tail(g, r) ==
    IF r.again THEN move_back(g, r.h, r.c, r.sel)
    ELSE [h |-> r.h, c |-> r.c]

move_back(g, h, c, in_soc) ==
    move_back_tail(g, move_back_step(g, h, c, in_soc))

\* peek_back, return s: self is the cursor the call leaves behind, ret the
\* one it returns
peek_back_moved(c, m) == [h |-> m.h, self |-> c, ret |-> m.c]

\* peek_back, s.select_input_socket(in_soc) and s.move_back() on the copy s
peek_back_copy(g, c, s, in_soc) ==
    peek_back_moved(c, move_back(g, s.h, select_input_socket(g, s.c, in_soc),
                                 SelNone))

\* NodeNav.peek_back
peek_back(g, h, c, in_soc) == peek_back_copy(g, c, copy(h, c), in_soc)


\* NodeSocket.to_node_nav
to_node_nav(h, soc, group_path) ==
    LET n == NodeNavInit(h, soc.node,
                         IF ~soc.is_output THEN soc ELSE NoSocket,
                         IF soc.is_output THEN soc ELSE NoSocket)
        r == NewRef(n.h)
    IN  [h |-> n.h @@ (r :> [k \in 1 .. Len(group_path) |->
                                Frame(group_path[k], NoSocket)]),
         c |-> [n.c EXCEPT !.stack = r]]

(***************************************************************************)
(* Constant and factor extraction.  res is the value returned, PyRaise when *)
(* the call is left by an exception.                                        *)
(***************************************************************************)
\* the colour with its alpha component
KeepAlpha(s) == s

\* color[:3]
Take3(s) == SubSeq(s, 1, 3)

\* get_constant on a linked input: p is self.peek_back()
get_constant_linked(g, ty, p) ==
    LET nv == p.ret
    IN  [h |-> p.h, c |-> p.self,
         res |->
           IF ~nv.moved THEN PyNone
           ELSE CASE ty = "RGBA" /\ NodeType(g, nv.node) = "RGB" ->
                       PyList(Take3(OutputRec(g, nv.out_socket).default_value))
                  \* nav.node.out_socket: a node has no such attribute
                  [] ty = "VALUE" /\ NodeType(g, nv.node) = "VALUE" ->
                       PyRaise
                  [] OTHER -> PyNone]

\* get_constant once the input is selected
get_constant_selected(g, h, c1) ==
    IF c1.in_socket = NoSocket
    THEN [h |-> h, c |-> c1, res |-> PyNone]
    ELSE
      LET ty == InputRec(g, c1.in_socket).type
          dv == InputRec(g, c1.in_socket).default_value
      IN  IF ~IsLinked(g, c1.in_socket)
          THEN [h |-> h, c |-> c1,
                res |-> CASE ty = "RGBA" -> PyList(Take3(dv))
                          [] ty = "SHADER" -> PyList(<<0, 0, 0>>)
                          [] ty = "VECTOR" -> PyList(dv)
                          [] ty = "VALUE" -> PyFloat(dv[1])
                          [] OTHER -> PyNone]
          ELSE get_constant_linked(g, ty, peek_back(g, h, c1, SelNone))

get_constant(g, h, c, in_soc) ==
    get_constant_selected(g, h, select_input_socket(g, c, in_soc))

\* get_factor, the return of lines 379-382: x1 and x2 are the constants of
\* the two operands
get_factor_operands(p, x1, x2) ==
    [h |-> x2.h, c |-> p.self,
     res |-> CASE x2.res = PyRaise -> PyRaise
               [] x1.res # PyNone /\ x2.res = PyNone -> x1.res
               [] x2.res # PyNone /\ x1.res = PyNone -> x2.res
               [] OTHER -> PyNone]

\* get_factor, x2 = nav.get_constant(s2) after x1
get_factor_second(g, p, x1, s2) ==
    IF x1.res = PyRaise
    THEN [h |-> x1.h, c |-> p.self, res |-> PyRaise]
    ELSE get_factor_operands(p, x1, get_constant(g, x1.h, x1.c, s2))

\* get_factor on the node p is on: a multiply node, or nothing
get_factor_multiply(g, ty, p) ==
    LET nv == p.ret
        is_mix == /\ ty = "RGBA"
                  /\ NodeType(g, nv.node) = "MIX"
                  /\ g.nodes[nv.node].data_type = "RGBA"
                  /\ g.nodes[nv.node].blend_type = "MULTIPLY"
        is_math == /\ ty = "VALUE"
                   /\ NodeType(g, nv.node) = "MATH"
                   /\ g.nodes[nv.node].operation = "MULTIPLY"
        s1 == IF is_mix THEN SelIdent("A_Color") ELSE SelInt(0)
        s2 == IF is_mix THEN SelIdent("B_Color") ELSE SelInt(1)
    IN  IF ~nv.moved \/ ~(is_mix \/ is_math)
        THEN [h |-> p.h, c |-> p.self, res |-> PyNone]
        ELSE get_factor_second(g, p, get_constant(g, p.h, nv, s1), s2)

\* get_factor after k = self.get_constant()
get_factor_constant(g, ty, k) ==
    IF k.res # PyNone THEN k
    ELSE get_factor_multiply(g, ty, peek_back(g, k.h, k.c, SelNone))

\* get_factor once the input is selected
get_factor_selected(g, h, c1) ==
    IF c1.in_socket = NoSocket
    THEN [h |-> h, c |-> c1, res |-> PyNone]
    ELSE get_factor_constant(g, InputRec(g, c1.in_socket).type,
                             get_constant(g, h, c1, SelNone))

get_factor(g, h, c, in_soc) ==
    get_factor_selected(g, h, select_input_socket(g, c, in_soc))


(***************************************************************************)
(* Alpha detectors.  Each returns the heap, the cursor it was given as the  *)
(* call leaves it (c), and the returned value (res).                        *)
(***************************************************************************)
\* get_color_attrib without the test of the attribute name
get_color_attrib_of_any_name(g, p) ==
    LET nv == p.ret
        ty == NodeType(g, nv.node)
    IN  [h |-> p.h, c |-> p.self,
         res |-> IF ~nv.moved THEN PyNone
                 ELSE CASE ty = "VERTEX_COLOR" -> PyStr(g.nodes[nv.node].layer_name)
                        [] ty = "ATTRIBUTE"
                             /\ g.nodes[nv.node].attribute_type = "GEOMETRY" ->
                               PyStr(g.nodes[nv.node].attribute_name)
                        [] OTHER -> PyNone]

\* get_color_attrib on the node p is on
get_color_attrib_of(g, p) ==
    LET nv == p.ret
        ty == NodeType(g, nv.node)
    IN  [h |-> p.h, c |-> p.self,
         res |-> IF ~nv.moved THEN PyNone
                 ELSE CASE ty = "VERTEX_COLOR" -> PyStr(g.nodes[nv.node].layer_name)
                        [] ty = "ATTRIBUTE"
                             /\ g.nodes[nv.node].attribute_type = "GEOMETRY"
                             /\ g.nodes[nv.node].attribute_name # "" ->
                               PyStr(g.nodes[nv.node].attribute_name)
                        [] OTHER -> PyNone]

\* get_color_attrib
get_color_attrib(g, h, c) ==
    get_color_attrib_of(g, peek_back(g, h, c, SelNone))

NoFactors(h) == [h |-> h, found |-> FALSE, raised |-> FALSE,
                 fac1 |-> [node |-> NoNode, in_socket |-> NoSocket,
                           out_socket |-> NoSocket, stack |-> 0, moved |-> FALSE],
                 fac2 |-> [node |-> NoNode, in_socket |-> NoSocket,
                           out_socket |-> NoSocket, stack |-> 0, moved |-> FALSE]]

\* get_multiply_factors, fac2 = prev.copy() and fac2.select_input_socket:
\* fac1 is the cursor prev itself, cp the copy of it
get_multiply_factors_pair(g, f1, cp, sel2) ==
    [h |-> cp.h, found |-> TRUE, raised |-> FALSE,
     fac1 |-> f1, fac2 |-> select_input_socket(g, cp.c, sel2)]

\* get_multiply_factors, the two operands of the node f1 is on
get_multiply_factors_split(g, h, f1, sel2) ==
    get_multiply_factors_pair(g, f1, copy(h, f1), sel2)

\* get_multiply_factors on a colour mix: k is prev.get_constant('Fac')
get_multiply_factors_mix(g, k) ==
    IF k.res = PyRaise THEN [NoFactors(k.h) EXCEPT !.raised = TRUE]
    ELSE IF k.res # PyFloat(Unit) THEN NoFactors(k.h)
    ELSE get_multiply_factors_split(
             g, k.h, select_input_socket(g, k.c, SelIdent("A_Color")),
             SelIdent("B_Color"))

\* get_multiply_factors on the node p is on; ty is the type of the input
\* the search came from
get_multiply_factors_of(g, ty, p) ==
    LET prev == p.ret
        pt == NodeType(g, prev.node)
    IN  IF ~prev.moved THEN NoFactors(p.h)
        ELSE IF ty = "RGBA"
        THEN IF /\ pt = "MIX"
                /\ g.nodes[prev.node].data_type = "RGBA"
                /\ g.nodes[prev.node].blend_type = "MULTIPLY"
             THEN \* prev.get_constant('Fac'): inputs['Fac'] is a KeyError
                  \* on a node without an input of that name
                  IF ~CanSelect(g, prev, SelName("Fac"))
                  THEN [NoFactors(p.h) EXCEPT !.raised = TRUE]
                  ELSE get_multiply_factors_mix(
                           g, get_constant(g, p.h, prev, SelName("Fac")))
             ELSE NoFactors(p.h)
        ELSE IF ty = "VALUE"
        THEN IF pt = "MATH" /\ g.nodes[prev.node].operation = "MULTIPLY"
             THEN get_multiply_factors_split(
                      g, p.h, select_input_socket(g, prev, SelInt(0)),
                      SelInt(1))
             ELSE NoFactors(p.h)
        ELSE NoFactors(p.h)

\* get_multiply_factors
get_multiply_factors(g, h, c) ==
    get_multiply_factors_of(g, InputRec(g, c.in_socket).type,
                            peek_back(g, h, c, SelNone))

\* detect_multiply_by_constant, k2 = fac2.get_constant()
detect_multiply_by_constant_second(c, f, k2) ==
    IF k2.res = PyRaise THEN [h |-> k2.h, c |-> c, res |-> PyRaise]
    ELSE IF k2.res # PyNone
    THEN LET a == assign(k2.h, c, f.fac1)
         IN  [h |-> a.h, c |-> a.c, res |-> k2.res]
    ELSE [h |-> k2.h, c |-> c, res |-> PyNone]

\* detect_multiply_by_constant, k1 = fac1.get_constant()
detect_multiply_by_constant_first(g, c, f, k1) ==
    IF k1.res = PyRaise THEN [h |-> k1.h, c |-> c, res |-> PyRaise]
    ELSE IF k1.res # PyNone
    THEN LET a == assign(k1.h, c, f.fac2)
         IN  [h |-> a.h, c |-> a.c, res |-> k1.res]
    ELSE detect_multiply_by_constant_second(
             c, f, get_constant(g, k1.h, f.fac2, SelNone))

\* detect_multiply_by_constant on the factors f
detect_multiply_by_constant_of(g, c, f) ==
    IF f.raised THEN [h |-> f.h, c |-> c, res |-> PyRaise]
    ELSE IF ~f.found THEN [h |-> f.h, c |-> c, res |-> PyNone]
    ELSE detect_multiply_by_constant_first(
             g, c, f, get_constant(g, f.h, f.fac1, SelNone))

\* detect_multiply_by_constant
detect_multiply_by_constant(g, h, c) ==
    detect_multiply_by_constant_of(g, c, get_multiply_factors(g, h, c))

\* detect_multiply_by_color_attrib, a2 = get_color_attrib(fac2)
detect_multiply_by_color_attrib_second(c, f, a2) ==
    IF a2.res # PyNone
    THEN LET a == assign(a2.h, c, f.fac1)
         IN  [h |-> a.h, c |-> a.c, res |-> a2.res]
    ELSE [h |-> a2.h, c |-> c, res |-> PyNone]

\* detect_multiply_by_color_attrib, a1 = get_color_attrib(fac1)
detect_multiply_by_color_attrib_first(g, c, f, a1) ==
    IF a1.res # PyNone
    THEN LET a == assign(a1.h, c, f.fac2)
         IN  [h |-> a.h, c |-> a.c, res |-> a1.res]
    ELSE detect_multiply_by_color_attrib_second(
             c, f, get_color_attrib(g, a1.h, f.fac2))

\* detect_multiply_by_color_attrib on the factors f
detect_multiply_by_color_attrib_of(g, c, f) ==
    IF f.raised THEN [h |-> f.h, c |-> c, res |-> PyRaise]
    ELSE IF ~f.found THEN [h |-> f.h, c |-> c, res |-> PyNone]
    ELSE detect_multiply_by_color_attrib_first(
             g, c, f, get_color_attrib(g, f.h, f.fac1))

\* detect_multiply_by_color_attrib
detect_multiply_by_color_attrib(g, h, c) ==
    detect_multiply_by_color_attrib_of(g, c, get_multiply_factors(g, h, c))

\* detect_alpha_clip with the cursor assigned before the comparison is
\* looked at
detect_alpha_clip_compare_assigns_first(g, c, op2, in0, in1) ==
    IF in1.res = PyRaise THEN [h |-> in1.h, c |-> c, res |-> PyRaise]
    ELSE LET a == assign(in1.h, c, select_input_socket(g, in1.c, SelInt(IF op2 = "GREATER_THAN" THEN 1 ELSE 0)))
         IN  IF op2 = "LESS_THAN" /\ in0.res = PyNone /\ in1.res # PyNone
             THEN [h |-> a.h, c |-> a.c, res |-> in1.res]
             ELSE IF op2 = "GREATER_THAN" /\ in0.res # PyNone /\ in1.res = PyNone
             THEN [h |-> a.h, c |-> a.c, res |-> in0.res]
             ELSE [h |-> a.h, c |-> a.c, res |-> PyNone]

\* detect_alpha_clip, lines 485-494: in1 = nav2.get_constant(1)
detect_alpha_clip_compare(g, c, op2, in0, in1) ==
    IF in1.res = PyRaise THEN [h |-> in1.h, c |-> c, res |-> PyRaise]
    ELSE IF op2 = "LESS_THAN" /\ in0.res = PyNone /\ in1.res # PyNone
    THEN LET a == assign(in1.h, c, select_input_socket(g, in1.c, SelInt(0)))
         IN  [h |-> a.h, c |-> a.c, res |-> in1.res]
    ELSE IF op2 = "GREATER_THAN" /\ in0.res # PyNone /\ in1.res = PyNone
    THEN LET a == assign(in1.h, c, select_input_socket(g, in1.c, SelInt(1)))
         IN  [h |-> a.h, c |-> a.c, res |-> in0.res]
    ELSE [h |-> in1.h, c |-> c, res |-> PyNone]

\* detect_alpha_clip, in0 = nav2.get_constant(0)
detect_alpha_clip_first(g, c, op2, in0) ==
    IF in0.res = PyRaise THEN [h |-> in0.h, c |-> c, res |-> PyRaise]
    ELSE detect_alpha_clip_compare(g, c, op2, in0,
                                   get_constant(g, in0.h, in0.c, SelInt(1)))

\* detect_alpha_clip, p2 is nav2 = nav.peek_back(1)
detect_alpha_clip_inner(g, c, p2) ==
    LET nv2 == p2.ret
    IN  IF ~nv2.moved \/ NodeType(g, nv2.node) # "MATH"
        THEN [h |-> p2.h, c |-> c, res |-> PyNone]
        ELSE detect_alpha_clip_first(g, c, g.nodes[nv2.node].operation,
                                     get_constant(g, p2.h, nv2, SelInt(0)))

\* detect_alpha_clip on a subtraction: k0 is nav.get_constant(0)
detect_alpha_clip_subtract(g, c, k0) ==
    IF k0.res = PyRaise THEN [h |-> k0.h, c |-> c, res |-> PyRaise]
    ELSE IF k0.res # PyFloat(Unit) THEN [h |-> k0.h, c |-> c, res |-> PyNone]
    ELSE detect_alpha_clip_inner(g, c, peek_back(g, k0.h, k0.c, SelInt(1)))

\* detect_alpha_clip on the node p is on
detect_alpha_clip_of(g, c, p) ==
    LET nv == p.ret
        isMath == NodeType(g, nv.node) = "MATH"
        op == IF isMath THEN g.nodes[nv.node].operation ELSE ""
    IN  IF ~nv.moved THEN [h |-> p.h, c |-> c, res |-> PyNone]
        ELSE IF isMath /\ op = "ROUND"
        THEN LET a == assign(p.h, c, select_input_socket(g, nv, SelInt(0)))
             IN  [h |-> a.h, c |-> a.c, res |-> PyFloat(Unit \div 2)]
        ELSE IF isMath /\ op = "SUBTRACT"
        THEN detect_alpha_clip_subtract(g, c, get_constant(g, p.h, nv, SelInt(0)))
        ELSE [h |-> p.h, c |-> c, res |-> PyNone]

\* detect_alpha_clip
detect_alpha_clip(g, h, c) ==
    detect_alpha_clip_of(g, c, peek_back(g, h, c, SelNone))

\* a key a dict does not hold
PyAbsent == [kind |-> "absent", val |-> <<>>, str |-> ""]

\* the dict gather_alpha_info starts from; alphaColorAttr is the key lines
\* 434 and 439 write
InfoInit ==
    [alphaMode |-> PyNone, alphaCutoff |-> PyNone, alphaFactor |-> PyNone,
     alphaColorAttrib |-> PyNone, alphaColorAttr |-> PyAbsent]

\* a round of the loop, lines 437-442: d is what
\* detect_multiply_by_color_attrib returned; next says that the round ends
\* in continue
alpha_round_attrib_multiply(st, c2, d) ==
    IF d.res = PyRaise
    THEN [st EXCEPT !.h = d.h, !.c = c2, !.raised = TRUE, !.next = FALSE]
    ELSE IF d.res # PyNone
    THEN [st EXCEPT !.h = d.h, !.c = d.c, !.info.alphaColorAttr = d.res,
                    !.next = TRUE]
    ELSE [st EXCEPT !.h = d.h, !.c = c2, !.next = FALSE]

\* a round of the loop, lines 432-435: t is what get_color_attrib returned
alpha_round_attrib_direct(g, st, c2, t) ==
    IF t.res # PyNone
    THEN [st EXCEPT !.h = t.h, !.c = c2, !.info.alphaColorAttr = t.res,
                    !.next = FALSE]
    ELSE alpha_round_attrib_multiply(
             st, c2, detect_multiply_by_color_attrib(g, t.h, t.c))

\* a round of the loop, lines 430-442, from the heap h2 and the cursor c2
alpha_round_attrib(g, st, h2, c2) ==
    IF st.info.alphaColorAttrib = PyNone
    THEN alpha_round_attrib_direct(g, st, c2, get_color_attrib(g, h2, c2))
    ELSE [st EXCEPT !.h = h2, !.c = c2, !.next = FALSE]

\* a round of the loop, lines 425-428: m is what
\* detect_multiply_by_constant returned
alpha_round_factor_multiply(g, st, m) ==
    IF m.res = PyRaise
    THEN [st EXCEPT !.h = m.h, !.raised = TRUE, !.next = FALSE]
    ELSE IF m.res # PyNone
    THEN [st EXCEPT !.h = m.h, !.c = m.c, !.info.alphaFactor = m.res,
                    !.next = TRUE]
    ELSE alpha_round_attrib(g, st, m.h, m.c)

\* a round of the loop, lines 420-423: a is what get_constant returned
alpha_round_factor(g, st, a) ==
    IF a.res = PyRaise
    THEN [st EXCEPT !.h = a.h, !.raised = TRUE, !.next = FALSE]
    ELSE IF a.res # PyNone
    THEN [st EXCEPT !.h = a.h, !.info.alphaFactor = a.res, !.next = FALSE]
    ELSE alpha_round_factor_multiply(
             g, st, detect_multiply_by_constant(g, a.h, a.c))

\* one round of the loop "for _ in range(2)" of gather_alpha_info
alpha_round(g, st) ==
    IF st.info.alphaFactor = PyNone
    THEN alpha_round_factor(g, st, get_constant(g, st.h, st.c, SelNone))
    ELSE alpha_round_attrib(g, st, st.h, st.c)

\* gather_alpha_info, lines 444-453: the alpha mode, after the loop
gather_alpha_info_mode(st2) ==
    IF st2.raised
    THEN [h |-> st2.h, c |-> st2.c, info |-> InfoInit, raised |-> TRUE]
    ELSE [h |-> st2.h, c |-> st2.c,
          info |-> IF st2.info.alphaMode # PyNone THEN st2.info
                   ELSE IF st2.info.alphaFactor = PyFloat(0)
                   THEN [st2.info EXCEPT !.alphaMode = PyStr("MASK"),
                                         !.alphaCutoff = PyFloat(Unit \div 2)]
                   ELSE [st2.info EXCEPT !.alphaMode = PyStr("BLEND")],
          raised |-> FALSE]

\* gather_alpha_info, the second round of the loop, if the first went on
gather_alpha_info_again(g, st1) ==
    gather_alpha_info_mode(IF st1.next THEN alpha_round(g, st1) ELSE st1)

\* gather_alpha_info, the loop of lines 417-442
gather_alpha_info_loop(g, st0) ==
    gather_alpha_info_again(g, alpha_round(g, st0))

\* gather_alpha_info, lines 408-412: clip is what detect_alpha_clip returned
gather_alpha_info_clip(g, c, clip) ==
    IF clip.res = PyRaise
    THEN [h |-> clip.h, c |-> c, info |-> InfoInit, raised |-> TRUE]
    ELSE gather_alpha_info_loop(
             g, [h |-> clip.h, c |-> clip.c,
                 info |-> IF clip.res # PyNone
                          THEN [InfoInit EXCEPT !.alphaMode = PyStr("MASK"),
                                                !.alphaCutoff = clip.res]
                          ELSE InfoInit,
                 raised |-> FALSE, next |-> TRUE])

\* gather_alpha_info, lines 402-406: k is what get_constant returned
gather_alpha_info_opaque(g, c, k) ==
    IF k.res = PyRaise
    THEN [h |-> k.h, c |-> c, info |-> InfoInit, raised |-> TRUE]
    ELSE IF k.res = PyFloat(Unit)
    THEN [h |-> k.h, c |-> c,
          info |-> [InfoInit EXCEPT !.alphaMode = PyStr("OPAQUE")],
          raised |-> FALSE]
    ELSE gather_alpha_info_clip(g, c, detect_alpha_clip(g, k.h, k.c))

\* gather_alpha_info: info is the dict returned, raised says that the call
\* was left by an exception instead
gather_alpha_info(g, h, c) ==
    gather_alpha_info_opaque(g, c, get_constant(g, h, c, SelNone))

\* get_vertex_color_info, lines 865-873: a is what gather_alpha_info returned
get_vertex_color_info_alpha(a) ==
    LET attrib == a.info.alphaColorAttrib
    IN  IF a.raised
        THEN [raised |-> TRUE, alpha |-> PyNone, alpha_type |-> PyNone]
        ELSE IF attrib = PyStr("")
        THEN [raised |-> FALSE, alpha |-> PyNone, alpha_type |-> PyStr("active")]
        ELSE IF attrib # PyNone
        THEN [raised |-> FALSE, alpha |-> attrib, alpha_type |-> PyStr("name")]
        ELSE [raised |-> FALSE, alpha |-> PyNone, alpha_type |-> PyNone]

\* get_vertex_color_info on the cursor t of the alpha socket
get_vertex_color_info_nav(g, t) ==
    get_vertex_color_info_alpha(gather_alpha_info(g, t.h, t.c))

\* get_vertex_color_info, the part that reads the alpha socket
get_vertex_color_info(g, h, alpha_socket, group_path) ==
    get_vertex_color_info_nav(g, to_node_nav(h, alpha_socket, group_path))

(***************************************************************************)
(* The family of graphs.                                                    *)
(***************************************************************************)
Red == <<Unit, 0, 0, 5>>
Third == Def(<<3>>)
Full == Def(<<Unit>>)

ColorIdioms ==
    {Def(Red), Rgb(Red), Tex,
     Mix("MULTIPLY", Full, Rgb(Red), Tex),
     Mix("MULTIPLY", Full, Tex, Def(Red)),
     Mix("MULTIPLY", Full, Def(Red), Rgb(Red)),
     Mix("MULTIPLY", Full, Tex, Tex),
     Mix("ADD", Full, Def(Red), Tex)}

AlphaIdioms ==
    {Third, Full, Def(<<0>>), Val(3), Tex, Attr("Col"), Attr(""), VCol("Col"),
     Math("MULTIPLY", Third, Tex),
     Math("MULTIPLY", Tex, Third),
     Math("MULTIPLY", Val(3), Tex),
     Math("MULTIPLY", Third, Def(<<4>>)),
     Math("MULTIPLY", Tex, Tex),
     Math("ADD", Third, Tex),
     Math("MULTIPLY", Third, Attr("Col")),
     Math("MULTIPLY", Attr("Col"), Third),
     Math("MULTIPLY", Third, Math("MULTIPLY", Attr("Col"), Tex)),
     Math("MULTIPLY", Attr("Col"), Math("MULTIPLY", Third, Tex)),
     Math("MULTIPLY", Math("MULTIPLY", Tex, VCol("Col")), Third),
     Math("ROUND", Tex, Third),
     Math("SUBTRACT", Full, Math("LESS_THAN", Tex, Third)),
     Math("SUBTRACT", Full, Math("GREATER_THAN", Third, Tex)),
     Math("SUBTRACT", Full, Math("LESS_THAN", Third, Tex)),
     Math("SUBTRACT", Full, Math("GREATER_THAN", Tex, Third)),
     Math("SUBTRACT", Third, Math("LESS_THAN", Tex, Third)),
     Math("SUBTRACT", Full, Math("LESS_THAN", Tex, Val(3)))}

\* the idioms, each with the ordinal of the input of the shading node it
\* feeds
Idioms ==
    {<<0, e>> : e \in ColorIdioms}
    \cup {<<1, e>> : e \in AlphaIdioms}
    \cup {<<2, Def(<<1, 2, 3>>)>>, <<3, Def(<<>>)>>, <<4, Def(<<3>>)>>}

\* the idioms of which one link at a time is led through reroutes and
\* groups
RoutedIdioms ==
    {<<0, Rgb(Red)>>, <<0, Def(Red)>>,
     <<0, Mix("MULTIPLY", Full, Rgb(Red), Tex)>>,
     <<1, Third>>, <<1, Val(3)>>,
     <<1, Math("MULTIPLY", Third, Tex)>>,
     <<1, Math("MULTIPLY", Third, Attr("Col"))>>,
     <<1, Math("SUBTRACT", Full, Math("LESS_THAN", Tex, Third))>>}

Scenario(r, e, code, route, d0) ==
    [r |-> r, e |-> e, code |-> code, route |-> route, d0 |-> d0]

Scenarios ==
    {Scenario(ie[1], ie[2], 0, <<>>, 0) : ie \in Idioms}
    \cup UNION {UNION {{Scenario(ie[1], ie[2], k, rt, d) :
                          k \in LinkCodes(ie[2], ie[1] + 1), rt \in Routes(d)} :
                       d \in 0 .. MaxDepth} : ie \in RoutedIdioms}

(***************************************************************************)
(* State: the graph (never changed), two cursors and their stacks in the    *)
(* heap, the cursors as they were before the last call, the last call with  *)
(* its result, and the NodeSocket a search was given or returned.           *)
(***************************************************************************)
View(h, c) ==
    [node |-> c.node, in_socket |-> c.in_socket, out_socket |-> c.out_socket,
     stack |-> h[c.stack], moved |-> c.moved]

\* the heap with nothing but the stacks of the two cursors
Collect(h, c1, c2) ==
    IF c1.stack = c2.stack
    THEN [heap |-> (1 :> h[c1.stack]),
          nav |-> [c1 EXCEPT !.stack = 1], nav2 |-> [c2 EXCEPT !.stack = 1]]
    ELSE [heap |-> (1 :> h[c1.stack]) @@ (2 :> h[c2.stack]),
          nav |-> [c1 EXCEPT !.stack = 1], nav2 |-> [c2 EXCEPT !.stack = 2]]

Snapshot == [nav |-> View(heap, nav), nav2 |-> View(heap, nav2)]

NoVc == [alpha |-> PyNone, alpha_type |-> PyNone]

NoView == [node |-> NoNode, in_socket |-> NoSocket, out_socket |-> NoSocket,
           stack |-> <<>>, moved |-> FALSE]

\* a call, its selector and what it returned: a value (res), the alpha dict
\* (info), the vertex colour dict (vc) or a cursor (ret); done says that the
\* call ends the extraction the cursor was made for
Call(op, sel, res) ==
    [op |-> op, sel |-> sel, res |-> res, info |-> InfoInit, vc |-> NoVc,
     ret |-> NoView, done |-> FALSE]

\* the last call of an extraction: its cursor is discarded
Query(op, sel, res) == [Call(op, sel, res) EXCEPT !.done = TRUE]

\* the cursor is in use
Live == ~last.done

\* NodeSocket(socket, group_path): group_path is a list of the heap, 0 is
\* None
NodeSocket(soc, group_path) == [socket |-> soc, group_path |-> group_path]

\* no call of move_back is under way
Idle == [active |-> FALSE, sel |-> SelNone, calls |-> 0]

\* the group path get_material_nodes records for a node, below the frame
\* get_node_socket starts it with
GroupPath(g, n) == <<Material>> \o g.nodes[n].path

\* a call that leaves the heap as h and the cursors as c1 and c2
Commit(h, c1, c2, call) ==
    LET k == Collect(h, c1, c2)
    IN  /\ heap' = k.heap
        /\ nav' = k.nav
        /\ nav2' = k.nav2
        /\ pre' = Snapshot
        /\ last' = call
        /\ UNCHANGED <<graph, scen, pend, sock>>

\* a search starts over with the new cursor t.c; the second cursor is a
\* NodeNav of the shading node
Fresh(t) ==
    LET n == NodeNavInit(t.h, RootId, NoSocket, NoSocket)
        k == Collect(n.h, t.c, n.c)
    IN  [heap |-> k.heap, nav |-> k.nav, nav2 |-> k.nav2,
         pre |-> [nav |-> View(k.heap, k.nav),
                  nav2 |-> View(k.heap, k.nav2)]]

Init ==
    /\ scen \in Scenarios
    /\ graph = Build(scen)
    /\ LET f == Fresh(to_node_nav((1 :> <<>>), InSock(RootId, scen.r),
                                  GroupPath(graph, RootId)))
       IN  /\ heap = f.heap
           /\ nav = f.nav
           /\ nav2 = f.nav2
           /\ pre = f.pre
    /\ last = Call("to_node_nav", SelNone, PyNone)
    /\ pend = Idle
    /\ sock = NodeSocket(InSock(RootId, scen.r), 0)

\* the sockets a search hands to to_node_nav: the inputs of the nodes of
\* the idiom and the outputs of the nodes at a group boundary
StartSockets(g) ==
    {InSock(n, i) : n \in {m \in DOMAIN g.nodes : m[1] = "N" /\ m # RootId},
                    i \in 0 .. 7}
    \cup {OutSock(n, Ord) : n \in {m \in DOMAIN g.nodes : m[1] \in {"G", "GI"}}}

Placed(f, op) ==
    /\ heap' = f.heap
    /\ nav' = f.nav
    /\ nav2' = f.nav2
    /\ pre' = f.pre
    /\ last' = Call(op, SelNone, PyNone)
    /\ UNCHANGED <<graph, scen, pend, sock>>

\* NodeSocket(socket, group_path).to_node_nav()
ToNodeNav ==
    \E soc \in StartSockets(graph) :
        /\ soc.is_output \/ soc.idx \in DOMAIN graph.nodes[soc.node].inputs
        /\ Placed(Fresh(to_node_nav(heap, soc, GroupPath(graph, soc.node))),
                  "to_node_nav")

\* NodeNav(node) on a node of the material's own tree
NewNodeNav ==
    \E n \in DOMAIN graph.nodes :
        /\ graph.nodes[n].path = <<>>
        /\ n[1] = "N"
        /\ Placed(Fresh(NodeNavInit(heap, n, NoSocket, NoSocket)), "NodeNav")

\* the selectors tried on a node: each kind of selector on the node type
\* the code uses it on
Selectors(g, c) ==
    LET ty == NodeType(g, c.node)
        tried == CASE ty = "BSDF_PRINCIPLED" ->
                        {SelNone, SelName("Alpha"), SelSock(InSock(c.node, 0))}
                   [] ty = "MIX" ->
                        {SelNone, SelIdent("A_Color"), SelIdent("B_Color")}
                   [] ty = "MATH" -> {SelNone, SelInt(0), SelInt(1)}
                   [] OTHER -> {SelNone, SelInt(0)}
    IN  {sel \in tried : CanSelect(g, c, sel)}

\* the call of move_back returned m
Moved(sel, m) == Commit(m.h, m.c, nav2, Call("move_back", sel, PyNone))

MoveBack ==
    \E sel \in Selectors(graph, nav) :
        /\ Live
        /\ Moved(sel, move_back(graph, heap, nav, sel))

\* nav.descend(), where it does anything
Descend ==
    /\ Live
    /\ LET d == descend(graph, heap, nav)
       IN  /\ d.c # nav
           /\ Commit(d.h, d.c, nav2, Call("descend", SelNone, PyNone))

\* nav.ascend(), where it does anything
Ascend ==
    /\ Live
    /\ LET a == ascend(graph, heap, nav)
       IN  /\ a.c # nav
           /\ Commit(a.h, a.c, nav2, Call("ascend", SelNone, PyNone))

\* peek_back returned the cursor p.ret, which is discarded
Peeked(sel, p) ==
    Commit(p.h, p.self, nav2,
           [Query("peek_back", sel, PyNone) EXCEPT !.ret = View(p.h, p.ret)])

\* nav.peek_back(sel)
PeekBack ==
    \E sel \in Selectors(graph, nav) :
        /\ Live
        /\ Peeked(sel, peek_back(graph, heap, nav, sel))

\* peek_back returned the cursor p.ret, which nav2 is bound to
PeekedInto(sel, p) ==
    Commit(p.h, p.self, p.ret,
           [Call("peek_back", sel, PyNone) EXCEPT !.ret = View(p.h, p.ret)])

\* nav2 = nav.peek_back(sel)
PeekInto ==
    \E sel \in Selectors(graph, nav) :
        PeekedInto(sel, peek_back(graph, heap, nav, sel))

\* nav2 = nav.copy()
Copy ==
    LET k == copy(heap, nav)
    IN  Commit(k.h, nav, k.c, Call("copy", SelNone, PyNone))

\* nav.assign(nav2)
Assign ==
    LET a == assign(heap, nav, nav2)
    IN  Commit(a.h, a.c, nav2, Call("assign", SelNone, PyNone))

\* the call op(sel) returned k.res
Returned(op, sel, k) == Commit(k.h, k.c, nav2, Query(op, sel, k.res))

GetConstant ==
    \E sel \in Selectors(graph, nav) :
        /\ Live
        /\ Returned("get_constant", sel, get_constant(graph, heap, nav, sel))

GetFactor ==
    \E sel \in Selectors(graph, nav) :
        /\ Live
        /\ Returned("get_factor", sel, get_factor(graph, heap, nav, sel))

\* gather_alpha_info returned a.info
Gathered(a) ==
    Commit(a.h, a.c, nav2,
           [Query("gather_alpha_info", SelNone,
                  IF a.raised THEN PyRaise ELSE PyNone)
              EXCEPT !.info = a.info])

\* gather_alpha_info(nav) on a cursor that has a scalar input selected
GatherAlphaInfo ==
    /\ Live
    /\ nav.in_socket # NoSocket
    /\ InputRec(graph, nav.in_socket).type = "VALUE"
    /\ Gathered(gather_alpha_info(graph, heap, nav))

\* get_vertex_color_info returned v
GatheredVertexColor(v) ==
    Commit(heap, nav, nav2,
           [Query("get_vertex_color_info", SelNone,
                  IF v.raised THEN PyRaise ELSE PyNone)
              EXCEPT !.vc = [alpha |-> v.alpha, alpha_type |-> v.alpha_type]])

\* get_vertex_color_info(None, NodeSocket(the selected input), ...)
GetVertexColorInfo ==
    /\ Live
    /\ nav.in_socket # NoSocket
    /\ InputRec(graph, nav.in_socket).type = "VALUE"
    /\ GatheredVertexColor(
           get_vertex_color_info(graph, heap, nav.in_socket,
                                 GroupPath(graph, nav.node)))

Next ==
    \/ ToNodeNav
    \/ NewNodeNav
    \/ MoveBack
    \/ Descend
    \/ Ascend
    \/ PeekBack
    \/ GetConstant
    \/ GetFactor
    \/ GatherAlphaInfo
    \/ GetVertexColorInfo

Spec == Init /\ [][Next]_vars

(***************************************************************************)
(* Two cursors at once: copies of a cursor, and calls on the one while the  *)
(* other is kept.                                                           *)
(***************************************************************************)
CopiedIdioms ==
    {<<1, Third>>, <<1, Val(3)>>, <<1, Math("MULTIPLY", Third, Tex)>>}

InitCopy ==
    /\ Init
    /\ <<scen.r, scen.e>> \in CopiedIdioms
    /\ scen.code # 0

NextCopy ==
    \/ ToNodeNav
    \/ MoveBack
    \/ Descend
    \/ Ascend
    \/ PeekInto
    \/ Copy
    \/ Assign

SpecCopy == InitCopy /\ [][NextCopy]_vars

(***************************************************************************)
(* Properties.                                                              *)
(***************************************************************************)
\* the cursor of the state before the last call, as a cursor of heap h
PreCursor(ref) ==
    [node |-> pre.nav.node, in_socket |-> pre.nav.in_socket,
     out_socket |-> pre.nav.out_socket, stack |-> ref, moved |-> pre.nav.moved]

PreHeap == (1 :> pre.nav.stack)

\* the input the last call had selected when it looked at the links
Selected == select_input_socket(graph, PreCursor(1), last.sel).in_socket

\* the cursor one peek back from the selected input
Producer == peek_back(graph, PreHeap, PreCursor(1), last.sel).ret

IsNode(n, ty) == NodeType(graph, n) = ty

\* C1: get_constant on a connected input whose producer, one peek back, is
\* an RGB node (colour input) or a VALUE node (scalar input) returns the
\* literal of that node: the first three components of the RGB node's
\* output default, the VALUE node's output default; it does not fail.
C1_LiteralNodeConstant ==
    (/\ last.op = "get_constant"
     /\ Selected # NoSocket
     /\ IsLinked(graph, Selected)
     /\ Producer.moved)
    => /\ (InputRec(graph, Selected).type = "RGBA" /\ IsNode(Producer.node, "RGB"))
          => last.res = PyList(Take3(OutputRec(graph, Producer.out_socket).default_value))
       /\ (InputRec(graph, Selected).type = "VALUE" /\ IsNode(Producer.node, "VALUE"))
          => last.res = PyFloat(OutputRec(graph, Producer.out_socket).default_value[1])

\* the idioms "constant factor times colour attribute (times texture)" on
\* the alpha input, with either multiplier as the outer multiply
AttribIdioms ==
    {Math("MULTIPLY", Third, Attr("Col")),
     Math("MULTIPLY", Attr("Col"), Third),
     Math("MULTIPLY", Third, Math("MULTIPLY", Attr("Col"), Tex)),
     Math("MULTIPLY", Attr("Col"), Math("MULTIPLY", Third, Tex)),
     Math("MULTIPLY", Math("MULTIPLY", Tex, VCol("Col")), Third)}

OnAlpha ==
    /\ scen.r = 1
    /\ scen.route = <<>>
    /\ pre.nav.node = RootId
    /\ pre.nav.in_socket = InSock(RootId, 1)

\* C2: on an alpha input fed by multiplies of a constant and a colour
\* attribute, gather_alpha_info returns the constant as alphaFactor and the
\* attribute name as alphaColorAttrib, whichever multiplier is the outer
\* one, and get_vertex_color_info reports the attribute as alpha with
\* alpha_type set.
C2_AlphaFactorAndAttrib ==
    (OnAlpha /\ scen.e \in AttribIdioms)
    => /\ last.op = "gather_alpha_info"
          => /\ last.res # PyRaise
             /\ last.info.alphaFactor = PyFloat(3)
             /\ last.info.alphaColorAttrib = PyStr("Col")
       /\ last.op = "get_vertex_color_info"
          => /\ last.vc.alpha = PyStr("Col")
             /\ last.vc.alpha_type = PyStr("name")

IsReroute(x) == x = "R"

\* the scenario with the same nodes and no group: the shading node at the
\* top level, the route without its group boundaries
Ungrouped(s) == [s EXCEPT !.route = SelectSeq(s.route, IsReroute), !.d0 = 0]

\* the stack of a cursor of the material's own tree that stands for pre.nav
TopStack ==
    IF pre.nav.stack # <<>> /\ pre.nav.stack[1].node = Material
    THEN <<Frame(Material, NoSocket)>>
    ELSE <<>>

IsBoundary(x) == x # "R"

\* the expression at the far end of the decorated link
RouteSource(s) ==
    (CHOOSE x \in FindLink(s.e, s.r + 1, "", s.code) : TRUE).e

\* the route ends in a group whose group-output input is fed by nothing:
\* the group has no producer
EmptyGroup(s) ==
    LET b == SelectSeq(s.route, IsBoundary)
    IN  /\ s.code # 0
        /\ b # <<>>
        /\ b[Len(b)] = "D"
        /\ RouteSource(s).kind = "DEFAULT"

\* the last call was made on a node the ungrouped graph has as well
OnSharedNode ==
    /\ pre.nav.node[1] \in {"N", "RR"}
    /\ pre.nav.out_socket = NoSocket \/ pre.nav.out_socket.node[1] \in {"N", "RR"}

\* what the last call returns on g from the cursor that stands for pre.nav
Replay(g) ==
    LET h == (1 :> TopStack)
        c == PreCursor(1)
    IN  CASE last.op = "get_constant" ->
               [res |-> get_constant(g, h, c, last.sel).res, info |-> InfoInit]
          [] last.op = "get_factor" ->
               [res |-> get_factor(g, h, c, last.sel).res, info |-> InfoInit]
          [] last.op = "gather_alpha_info" ->
               LET a == gather_alpha_info(g, h, c)
               IN  [res |-> IF a.raised THEN PyRaise ELSE PyNone,
                    info |-> a.info]

\* C3: get_constant, get_factor and gather_alpha_info return on an idiom
\* whose link crosses group boundaries what they return on the same idiom
\* authored at the top level.
C3_GroupSymmetry ==
    (/\ last.op \in {"get_constant", "get_factor", "gather_alpha_info"}
     /\ ~EmptyGroup(scen)
     /\ OnSharedNode)
    => LET r == Replay(Build(Ungrouped(scen)))
       IN  last.res = r.res /\ last.info = r.info

Depth(n) == Len(graph.nodes[n].path)

PseudoNodes == {"GROUP", "GROUP_OUTPUT", "GROUP_INPUT"}

IsGroupFrame(f) == f.node # Material

\* the frames of groups entered; the frame of the material that
\* get_node_socket puts below them is none
GroupFrames(st) == SelectSeq(st, IsGroupFrame)

\* C4: after move_back the stack holds as many group frames as the cursor's
\* node is nested deep, and the cursor is not on a group, group-output or
\* group-input node.
C4_StackDepthIsNesting ==
    last.op = "move_back"
    => /\ Len(GroupFrames(heap[nav.stack])) = Depth(nav.node)
       /\ NodeType(graph, nav.node) \notin PseudoNodes

\* the half of C4 that is about the depth alone
StackDepthAlone ==
    last.op = "move_back"
    => Len(GroupFrames(heap[nav.stack])) = Depth(nav.node)

Position(v) == <<v.node, v.out_socket, v.stack>>

\* C5: after move_back, moved is True exactly if the cursor's node,
\* out_socket or stack differ from what they were before the call.
C5_MovedIffAdvanced ==
    last.op = "move_back"
    => (nav.moved <=> Position(View(heap, nav)) # Position(pre.nav))

\* C6: move_back on a cursor whose selected input is absent or unlinked
\* reports not-moved and leaves node, out_socket and stack as they were.
C6_UnlinkedIsNoMove ==
    (/\ last.op = "move_back"
     /\ (Selected = NoSocket \/ ~IsLinked(graph, Selected)))
    => /\ ~nav.moved
       /\ Position(View(heap, nav)) = Position(pre.nav)

C6_Witness ==
    /\ last.op = "move_back"
    /\ last.sel.kind = "int"
    /\ Selected # NoSocket
    /\ ~IsLinked(graph, Selected)
    /\ pre.nav.moved
    /\ pre.nav.out_socket # NoSocket
    /\ Len(pre.nav.stack) > 1
    /\ ~nav.moved

\* the input the decorated link of the scenario feeds
DecSocket(s) ==
    InSock(<<"N", (s.code - 1) \div 10, 0>>, (s.code - 1) % 10)

\* the number of reroutes a route begins with
RECURSIVE LeadingReroutes(_, _)
LeadingReroutes(route, i) ==
    IF i > Len(route) \/ route[i] # "R" THEN i - 1
    ELSE LeadingReroutes(route, i + 1)

\* the scenario whose decorated link leaves out the reroutes it begins with
Direct(s) ==
    LET n == LeadingReroutes(s.route, 1)
    IN  [s EXCEPT !.route = SubSeq(s.route, n + 1, Len(s.route))]

\* every reroute of the route has its input linked
ReroutesLinked(s) ==
    ~(RouteSource(s).kind = "DEFAULT" /\ s.route[Len(s.route)] = "R")

ThroughReroutes ==
    /\ last.op = "move_back"
    /\ scen.code # 0
    /\ Selected = DecSocket(scen)
    /\ LeadingReroutes(scen.route, 1) >= 1
    /\ ReroutesLinked(scen)

\* C7: move_back through an input fed by a chain of N linked reroutes ends
\* in the cursor state move_back ends in when the input is linked directly
\* from the same output socket; when that socket is the output of a node
\* proper, the state has moved True and no input selected.
C7_RerouteTransparency ==
    ThroughReroutes
    => LET m == move_back(Build(Direct(scen)), PreHeap, PreCursor(1), last.sel)
       IN  /\ View(heap, nav) = View(m.h, m.c)
           /\ Direct(scen).route = <<>>
              => /\ nav.moved
                 /\ nav.in_socket = NoSocket
                 /\ nav.node[1] = "N"

C7_Witness ==
    /\ ThroughReroutes
    /\ LeadingReroutes(scen.route, 1) = MaxHops
    /\ nav.moved
    /\ nav.node[1] = "N"
    /\ pre.nav.node # RootId

(***************************************************************************)
(* move_back one activation at a time: a call is under way from the moment  *)
(* it is made until an activation returns without calling move_back again.  *)
(***************************************************************************)
\* activations counted per call
MaxCalls == 8

PlaceTerm ==
    /\ ~pend.active
    /\ ToNodeNav

CallMoveBack ==
    \E sel \in Selectors(graph, nav) :
        /\ ~pend.active
        /\ pend' = [active |-> TRUE, sel |-> sel, calls |-> 0]
        /\ pre' = Snapshot
        /\ last' = Call("move_back", sel, PyNone)
        /\ UNCHANGED <<graph, scen, heap, nav, nav2, sock>>

StepMoveBack ==
    /\ pend.active
    /\ LET r == move_back_step(graph, heap, nav, pend.sel)
           k == Collect(r.h, r.c, nav2)
           n == IF pend.calls < MaxCalls THEN pend.calls + 1 ELSE pend.calls
       IN  /\ heap' = k.heap
           /\ nav' = k.nav
           /\ nav2' = k.nav2
           /\ pend' = [active |-> r.again, sel |-> r.sel, calls |-> n]
    /\ UNCHANGED <<graph, scen, pre, last, sock>>

NextTerm ==
    \/ PlaceTerm
    \/ CallMoveBack
    \/ StepMoveBack

\* a call that was made runs on: Python executes it to its end
SpecTerm == InitCopy /\ [][NextTerm]_vars /\ WF_vars(StepMoveBack)

\* C8: every call of move_back returns: its chain of reroute skips, group
\* descents and group ascents comes to an activation that calls no further.
C8_MoveBackTerminates == pend.active ~> ~pend.active

C8_Witness ==
    /\ ~pend.active
    /\ last.op = "move_back"
    /\ pend.calls = MaxHops + 1
    /\ nav.moved
    /\ nav.node[1] = "N"

\* C9: peek_back leaves the cursor it is called on as it was, and a
\* move_back, descend or ascend on one of two cursors that copy or assign
\* made equal leaves the other as it was; the two never hold one stack.
C9_PeekAndCopyArePure ==
    /\ last.op = "peek_back" => View(heap, nav) = pre.nav
    /\ last.op \in {"move_back", "descend", "ascend"}
       => View(heap, nav2) = pre.nav2
    /\ last.op \in {"copy", "assign"} => View(heap, nav) = View(heap, nav2)
    /\ nav.stack # nav2.stack

C9_Witness ==
    /\ last.op = "move_back"
    /\ pre.nav = pre.nav2
    /\ Len(heap[nav.stack]) > Len(pre.nav.stack)
    /\ View(heap, nav2) = pre.nav2

\* the default get_constant returns for an unlinked input
DefaultOf(soc) ==
    LET dv == soc.default_value
    IN  CASE soc.type = "RGBA" -> PyList(<<dv[1], dv[2], dv[3]>>)
          [] soc.type = "SHADER" -> PyList(<<0, 0, 0>>)
          [] soc.type = "VECTOR" -> PyList(dv)
          [] soc.type = "VALUE" -> PyFloat(dv[1])
          [] OTHER -> PyNone

\* C10: get_constant on an unlinked selected input returns the first three
\* components of a colour default, the triple of a vector default, the
\* value of a scalar default, black for a shader input and None for an
\* input of any other type; with no input selected it returns None.
C10_UnlinkedDefault ==
    last.op = "get_constant"
    => /\ Selected = NoSocket => last.res = PyNone
       /\ (Selected # NoSocket /\ ~IsLinked(graph, Selected))
          => last.res = DefaultOf(InputRec(graph, Selected))

C10_Witness ==
    /\ last.op = "get_constant"
    /\ Selected # NoSocket
    /\ ~IsLinked(graph, Selected)
    /\ InputRec(graph, Selected).type = "RGBA"
    /\ Len(InputRec(graph, Selected).default_value) = 4
    /\ last.res = PyList(<<Unit, 0, 0>>)

(***************************************************************************)
(* Factors and alpha modes.                                                 *)
(***************************************************************************)
\* the literal of the node a cursor p came to: the colour of an RGB node
\* for a colour input, the value of a VALUE node for a scalar input
LiteralOfNode(ty, p) ==
    IF ~p.moved THEN PyNone
    ELSE CASE ty = "RGBA" /\ IsNode(p.node, "RGB") ->
                PyList(Take3(OutputRec(graph, p.out_socket).default_value))
           [] ty = "VALUE" /\ IsNode(p.node, "VALUE") ->
                PyFloat(OutputRec(graph, p.out_socket).default_value[1])
           [] OTHER -> PyNone

\* the constant the selected input of cursor c resolves to: its default
\* when it is unlinked, the literal of its producer when it is linked
Literal(h, c) ==
    IF ~IsLinked(graph, c.in_socket)
    THEN DefaultOf(InputRec(graph, c.in_socket))
    ELSE LiteralOfNode(InputRec(graph, c.in_socket).type,
                       peek_back(graph, h, c, SelNone).ret)

\* the peek back from the input the last call had selected
Peek == peek_back(graph, PreHeap, PreCursor(1), last.sel)

\* the constant of the input the last call had selected
SelectedLiteral ==
    Literal(PreHeap, select_input_socket(graph, PreCursor(1), last.sel))

\* the constant of an operand of the producer
OperandLiteral(sel) ==
    Literal(Peek.h, select_input_socket(graph, Peek.ret, sel))

\* the producer is the multiply idiom of an input of type ty
IsMultiply(ty) ==
    \/ /\ ty = "RGBA"
       /\ IsNode(Producer.node, "MIX")
       /\ graph.nodes[Producer.node].data_type = "RGBA"
       /\ graph.nodes[Producer.node].blend_type = "MULTIPLY"
    \/ /\ ty = "VALUE"
       /\ IsNode(Producer.node, "MATH")
       /\ graph.nodes[Producer.node].operation = "MULTIPLY"

\* the one constant among the two operands of the multiply idiom, None
\* when neither or both are constant
OneOperand(ty) ==
    LET x1 == OperandLiteral(IF ty = "RGBA" THEN SelIdent("A_Color") ELSE SelInt(0))
        x2 == OperandLiteral(IF ty = "RGBA" THEN SelIdent("B_Color") ELSE SelInt(1))
    IN  IF x1 # PyNone /\ x2 = PyNone THEN x1
        ELSE IF x2 # PyNone /\ x1 = PyNone THEN x2
        ELSE PyNone

\* C11: on a connected input that is no constant, get_factor returns the
\* constant of the one operand that is constant when the producer is the
\* multiply idiom and exactly one of its two operands is constant, and None
\* when neither or both are, or when the producer is any other node.
C11_FactorOfMultiply ==
    (/\ last.op = "get_factor"
     /\ Selected # NoSocket
     /\ IsLinked(graph, Selected)
     /\ SelectedLiteral = PyNone)
    => last.res = IF Producer.moved /\ IsMultiply(InputRec(graph, Selected).type)
                  THEN OneOperand(InputRec(graph, Selected).type)
                  ELSE PyNone

\* C11 where no operand of the multiply is a VALUE node: the claim without
\* the failure of get_constant on VALUE nodes (C1)
FactorWithoutValueNodes ==
    (\A n \in DOMAIN graph.nodes : graph.nodes[n].type # "VALUE")
    => C11_FactorOfMultiply

\* C12: an alpha input that is the constant c is classified by c alone:
\* 1 gives OPAQUE with no cutoff, factor or attribute, 0 gives MASK with
\* cutoff 0.5, any other c gives BLEND with alphaFactor c and no cutoff; and
\* every result has a cutoff if and only if its mode is MASK.
C12_AlphaByConstant ==
    last.op = "gather_alpha_info"
    => /\ SelectedLiteral.kind = "float"
          => /\ last.res # PyRaise
             /\ SelectedLiteral = PyFloat(Unit)
                => /\ last.info.alphaMode = PyStr("OPAQUE")
                   /\ last.info.alphaCutoff = PyNone
                   /\ last.info.alphaFactor = PyNone
                   /\ last.info.alphaColorAttrib = PyNone
             /\ SelectedLiteral = PyFloat(0)
                => /\ last.info.alphaMode = PyStr("MASK")
                   /\ last.info.alphaCutoff = PyFloat(Unit \div 2)
             /\ SelectedLiteral \notin {PyFloat(0), PyFloat(Unit)}
                => /\ last.info.alphaMode = PyStr("BLEND")
                   /\ last.info.alphaFactor = SelectedLiteral
                   /\ last.info.alphaCutoff = PyNone
       /\ last.res # PyRaise
          => (last.info.alphaCutoff # PyNone
              <=> last.info.alphaMode = PyStr("MASK"))

\* C12 on the inputs that are unlinked: the claim without the failure of
\* get_constant on VALUE nodes (C1) and on group defaults (C3)
AlphaByDefault ==
    (Selected # NoSocket /\ IsLinked(graph, Selected)) \/ C12_AlphaByConstant

\* the producer is a math node of the operation
ProducerIs(op) ==
    /\ Producer.moved
    /\ IsNode(Producer.node, "MATH")
    /\ graph.nodes[Producer.node].operation = op

\* the comparison that feeds the second operand of the producer
Compare == peek_back(graph, Peek.h, Peek.ret, SelInt(1))

CompareIs(op) ==
    /\ Compare.ret.moved
    /\ IsNode(Compare.ret.node, "MATH")
    /\ graph.nodes[Compare.ret.node].operation = op

\* the constant of an operand of the comparison
CompareLiteral(i) ==
    Literal(Compare.h, select_input_socket(graph, Compare.ret, SelInt(i)))

\* the producer is 1 - (a comparison)
IsOneMinus(op) ==
    /\ ProducerIs("SUBTRACT")
    /\ OperandLiteral(SelInt(0)) = PyFloat(Unit)
    /\ CompareIs(op)

Masked(cutoff) ==
    /\ last.res # PyRaise
    /\ last.info.alphaMode = PyStr("MASK")
    /\ last.info.alphaCutoff = cutoff

\* C13: gather_alpha_info gives MASK with cutoff 0.5 on a ROUND producer,
\* MASK with cutoff c on 1 - (x < c) and on 1 - (c > x) with x no constant,
\* and no MASK on the mirrored comparisons 1 - (c < x) and 1 - (x > c).
C13_ClipIdioms ==
    (last.op = "gather_alpha_info" /\ Selected # NoSocket
     /\ IsLinked(graph, Selected))
    => /\ ProducerIs("ROUND") => Masked(PyFloat(Unit \div 2))
       /\ (/\ IsOneMinus("LESS_THAN")
           /\ CompareLiteral(0) = PyNone
           /\ CompareLiteral(1) # PyNone)
          => Masked(CompareLiteral(1))
       /\ (/\ IsOneMinus("GREATER_THAN")
           /\ CompareLiteral(0) # PyNone
           /\ CompareLiteral(1) = PyNone)
          => Masked(CompareLiteral(0))
       /\ (\/ /\ IsOneMinus("LESS_THAN")
              /\ CompareLiteral(0) # PyNone
              /\ CompareLiteral(1) = PyNone
           \/ /\ IsOneMinus("GREATER_THAN")
              /\ CompareLiteral(0) = PyNone
              /\ CompareLiteral(1) # PyNone)
          => /\ last.res # PyRaise
             /\ last.info.alphaMode # PyStr("MASK")
             /\ last.info.alphaCutoff = PyNone

\* C13 where no node is a VALUE node: the claim without the failure of
\* get_constant on VALUE nodes (C1)
ClipWithoutValueNodes ==
    (\A n \in DOMAIN graph.nodes : graph.nodes[n].type # "VALUE")
    => C13_ClipIdioms

(***************************************************************************)
(* Materials for the socket resolver.  A material holds its node trees     *)
(* with the declaration order of the nodes, the muted nodes, the output    *)
(* nodes flagged active, the group instances whose tree is the old glTF    *)
(* settings group, and for every output socket its links in the order of   *)
(* socket.links.                                                            *)
(***************************************************************************)
\* how the output of a shader node of the outer graph is wired
Wirings == {"absent", "live", "loose", "muted", "stale"}

\* what the group instance of the outer graph looks like
GroupShapes ==
    {"absent", "direct", "dead", "muted", "legacy", "through", "fork",
     "fork_late", "fork_bare", "fork_cross"}

\* the shapes with a group instance nested in the group
Nested == {"through", "fork", "fork_late", "fork_bare", "fork_cross"}

Shaders == {"BSDF_PRINCIPLED", "EMISSION"}

Principled1 == <<"P", 1, 0>>
Principled2 == <<"P", 2, 0>>
Emission1 == <<"E", 1, 0>>
AddShader == <<"ADD", 1, 0>>
ActiveOutput == <<"OUT", 1, 0>>
SpareOutput == <<"OUT", 2, 0>>
Group1 == <<"G", 1, 0>>
Inner == <<"S", 1, 0>>
GroupOut1 == <<"GO", 1, 0>>
Group2 == <<"G", 2, 0>>
GroupIn2 == <<"GI", 2, 0>>
GroupOut2 == <<"GO", 2, 0>>

Named(names) ==
    [i \in 0 .. (Len(names) - 1) |->
        SocketRec("SHADER", <<>>, names[i + 1], names[i + 1])]

ShaderInputs(ty) ==
    IF ty = "BSDF_PRINCIPLED"
    THEN Named(<<"Base Color", "Emission Color", "Alpha">>)
    ELSE Named(<<"Color", "Strength">>)

ShaderNode(ty, path) ==
    NodeRec(ty, path, "", "", ShaderInputs(ty),
            Named(<<IF ty = "BSDF_PRINCIPLED" THEN "BSDF" ELSE "Emission">>))

\* the name of the output of the nested group instance
NestedOutput(shape) == IF shape = "fork_bare" THEN "Out" ELSE "BSDF"

MaterialNodes(m) ==
    (IF m.p1 # "absent"
     THEN (Principled1 :> ShaderNode("BSDF_PRINCIPLED", <<>>)) ELSE <<>>)
    @@ (IF m.p2 # "absent"
        THEN (Principled2 :> ShaderNode("BSDF_PRINCIPLED", <<>>)) ELSE <<>>)
    @@ (IF m.e1 # "absent"
        THEN (Emission1 :> ShaderNode("EMISSION", <<>>)) ELSE <<>>)
    @@ (AddShader :>
          NodeRec("ADD_SHADER", <<>>, "", "",
                  Named(<<"Shader", "Shader", "Shader", "Shader", "Shader">>),
                  Named(<<"Shader">>)))
    @@ (ActiveOutput :>
          NodeRec("OUTPUT_MATERIAL", <<>>, "", "",
                  Named(<<"Surface", "Volume", "Displacement">>), <<>>))
    @@ (SpareOutput :>
          NodeRec("OUTPUT_MATERIAL", <<>>, "", "",
                  Named(<<"Surface", "Volume", "Displacement">>), <<>>))
    @@ (IF m.grp # "absent"
        THEN (Group1 :>
                NodeRec("GROUP", <<>>, "", "", <<>>,
                        Named(<<"BSDF", "Extra">>)))
             @@ (Inner :> ShaderNode(m.inner, <<Group1>>))
             @@ (GroupOut1 :>
                   NodeRec("GROUP_OUTPUT", <<Group1>>, "", "",
                           Named(<<"BSDF", "Extra">>), <<>>))
        ELSE <<>>)
    @@ (IF m.grp \in Nested
        THEN (Group2 :>
                NodeRec("GROUP", <<Group1>>, "", "", Named(<<"Shader">>),
                        Named(<<NestedOutput(m.grp)>>)))
             @@ (GroupIn2 :>
                   NodeRec("GROUP_INPUT", <<Group1, Group2>>, "", "", <<>>,
                           Named(<<"Shader">>)))
             @@ (GroupOut2 :>
                   NodeRec("GROUP_OUTPUT", <<Group1, Group2>>, "", "",
                           Named(<<NestedOutput(m.grp)>>), <<>>))
        ELSE <<>>)

\* the links of the output of a shader node of the outer graph
Wired(id, w, slot) ==
    CASE w \in {"live", "muted"} ->
           (OutSock(id, 0) :> <<Link(id, 0, AddShader, slot)>>)
      [] w = "stale" ->
           (OutSock(id, 0) :> <<Link(id, 0, SpareOutput, slot)>>)
      [] OTHER -> <<>>

\* the links of the group instance and of the nodes of its tree
GroupWired(shape) ==
    CASE shape \in {"direct", "muted", "legacy"} ->
           (OutSock(Inner, 0) :> <<Link(Inner, 0, GroupOut1, 0)>>)
           @@ (OutSock(Group1, 0) :> <<Link(Group1, 0, AddShader, 3)>>)
      [] shape = "dead" ->
           (OutSock(Inner, 0) :> <<Link(Inner, 0, GroupOut1, 0)>>)
      [] shape = "through" ->
           (OutSock(Inner, 0) :> <<Link(Inner, 0, Group2, 0)>>)
           @@ (OutSock(GroupIn2, 0) :> <<Link(GroupIn2, 0, GroupOut2, 0)>>)
           @@ (OutSock(Group2, 0) :> <<Link(Group2, 0, GroupOut1, 0)>>)
           @@ (OutSock(Group1, 0) :> <<Link(Group1, 0, AddShader, 3)>>)
      [] shape \in {"fork", "fork_bare"} ->
           (OutSock(Inner, 0) :>
              <<Link(Inner, 0, Group2, 0), Link(Inner, 0, GroupOut1, 0)>>)
           @@ (OutSock(Group1, 0) :> <<Link(Group1, 0, AddShader, 3)>>)
      [] shape = "fork_late" ->
           (OutSock(Inner, 0) :>
              <<Link(Inner, 0, GroupOut1, 0), Link(Inner, 0, Group2, 0)>>)
           @@ (OutSock(Group1, 0) :> <<Link(Group1, 0, AddShader, 3)>>)
      [] shape = "fork_cross" ->
           (OutSock(Inner, 0) :>
              <<Link(Inner, 0, Group2, 0), Link(Inner, 0, GroupOut1, 0)>>)
           @@ (OutSock(Group2, 0) :> <<Link(Group2, 0, GroupOut1, 1)>>)
           @@ (OutSock(Group1, 1) :> <<Link(Group1, 1, AddShader, 4)>>)
      [] OTHER -> <<>>

\* node_tree.nodes of all the trees, each tree in its declaration order
Declared ==
    <<Group1, Principled1, Emission1, Principled2, AddShader, SpareOutput,
      ActiveOutput, Inner, Group2, GroupOut1, GroupIn2, GroupOut2>>

\* the material of a scenario
BuildMaterial(m) ==
    [use_nodes |-> m.use_nodes,
     nodes |-> MaterialNodes(m),
     order |-> Declared,
     mute |-> (IF m.p1 = "muted" THEN {Principled1} ELSE {})
              \cup (IF m.p2 = "muted" THEN {Principled2} ELSE {})
              \cup (IF m.e1 = "muted" THEN {Emission1} ELSE {})
              \cup (IF m.grp = "muted" THEN {Group1} ELSE {}),
     active |-> {ActiveOutput},
     legacy |-> IF m.grp = "legacy" THEN {Group1} ELSE {},
     fanout |-> Wired(Principled1, m.p1, 0) @@ Wired(Principled2, m.p2, 1)
                @@ Wired(Emission1, m.e1, 2) @@ GroupWired(m.grp)
                @@ (OutSock(AddShader, 0) :>
                      <<Link(AddShader, 0, ActiveOutput, 0)>>)]

Materials ==
    {m \in [use_nodes : BOOLEAN, p1 : Wirings,
            p2 : {"absent", "live", "loose"}, e1 : Wirings,
            grp : GroupShapes, inner : Shaders] :
        ~m.use_nodes =>
            /\ m.p2 = "absent" /\ m.grp \in {"absent", "direct"}
            /\ m.inner = "BSDF_PRINCIPLED" /\ m.e1 \in {"absent", "live"}}

\* socket.links of an output socket
Links(g, soc) == IF soc \in DOMAIN g.fanout THEN g.fanout[soc] ELSE <<>>

\* the nodes of a tree in declaration order; a tree is named by the path of
\* group instances that leads to it
NodesOfTree(g, path) ==
    SelectSeq(g.order,
              LAMBDA n : n \in DOMAIN g.nodes /\ g.nodes[n].path = path)

\* the first output of a node with a name, NoSocket if there is none
OutputNamed(g, n, name) ==
    IF \E i \in DOMAIN g.nodes[n].outputs : g.nodes[n].outputs[i].name = name
    THEN OutSock(n, CHOOSE i \in DOMAIN g.nodes[n].outputs :
                    /\ g.nodes[n].outputs[i].name = name
                    /\ \A j \in DOMAIN g.nodes[n].outputs :
                          g.nodes[n].outputs[j].name = name => i <= j)
    ELSE NoSocket

\* the first input of a node with a name, NoSocket if there is none
InputNamed(g, n, name) ==
    IF \E i \in DOMAIN g.nodes[n].inputs : g.nodes[n].inputs[i].name = name
    THEN InSock(n, CHOOSE i \in DOMAIN g.nodes[n].inputs :
                   /\ g.nodes[n].inputs[i].name = name
                   /\ \A j \in DOMAIN g.nodes[n].inputs :
                         g.nodes[n].inputs[j].name = name => i <= j)
    ELSE NoSocket

(***************************************************************************)
(* The socket resolver.  group_path is a list of the heap; a call returns   *)
(* the heap it leaves, because the lists it was given may have changed.     *)
(***************************************************************************)
\* the heap before a call: no list yet (0 stands for None)
NoLists == (0 :> <<>>)

\* line 167: [n for n in node_tree.nodes if isinstance(n, type) and not
\* n.mute]
LevelNodes(g, path, type) ==
    SelectSeq(NodesOfTree(g, path),
              LAMBDA n : g.nodes[n].type = type /\ n \notin g.mute)

\* line 171: the group instances get_material_nodes enters
LevelGroups(g, path) ==
    SelectSeq(NodesOfTree(g, path),
              LAMBDA n : /\ g.nodes[n].type = "GROUP"
                         /\ g.nodes[n].has_tree
                         /\ n \notin g.mute
                         /\ n \notin g.legacy)

RECURSIVE get_material_nodes_level(_, _, _, _, _)
\* lines 167-168: every node of the level with a copy of group_path
get_material_nodes_level(h, ns, i, group_path, nodes) ==
    IF i > Len(ns)
    THEN [h |-> h, nodes |-> nodes]
    ELSE get_material_nodes_level(
             h @@ (NewRef(h) :> h[group_path]), ns, i + 1, group_path,
             Append(nodes, [node |-> ns[i], group_path |-> NewRef(h)]))

RECURSIVE get_material_nodes(_, _, _, _, _)
RECURSIVE get_material_nodes_groups(_, _, _, _, _, _, _)

\* line 174: nodes.extend(...)
get_material_nodes_extend(g, gs, i, group_path, type, nodes, r) ==
    get_material_nodes_groups(g, r.h, gs, i + 1, group_path, type,
                              nodes \o r.nodes)

\* lines 171-174: the nodes of the groups of the level, depth first
get_material_nodes_groups(g, h, gs, i, group_path, type, nodes) ==
    IF i > Len(gs)
    THEN [h |-> h, nodes |-> nodes]
    ELSE get_material_nodes_extend(
             g, gs, i, group_path, type, nodes,
             get_material_nodes(
                 g, h @@ (NewRef(h) :> Append(h[group_path], gs[i])),
                 g.nodes[gs[i]].path \o <<gs[i]>>, NewRef(h), type))

get_material_nodes_rest(g, path, group_path, type, r) ==
    get_material_nodes_groups(g, r.h, LevelGroups(g, path), 1, group_path,
                              type, r.nodes)

\* get_material_nodes(node_tree, group_path, type), lines 161-176
get_material_nodes(g, h, path, group_path, type) ==
    get_material_nodes_rest(
        g, path, group_path, type,
        get_material_nodes_level(h, LevelNodes(g, path, type), 1, group_path,
                                 <<>>))

\* lines 805-806: the output of the group-input node of the tree of the
\* entered group instance that carries the name of the entered input;
\* NoSocket where an index [0] fails
EnteredSocket(g, link) ==
    LET ins == SelectSeq(NodesOfTree(g, g.nodes[link.to_node].path
                                        \o <<link.to_node>>),
                         LAMBDA n : g.nodes[n].type = "GROUP_INPUT")
    IN  IF ~g.nodes[link.to_node].has_tree \/ ins = <<>>
        THEN NoSocket
        ELSE OutputNamed(g, ins[1], InputRec(g, link.to_socket).name)

\* lines 817-818: the output of group_path[-1] that carries the name of the
\* reached group-output input; NoSocket where the lookup fails
LeftSocket(g, path, link) ==
    IF path = <<>> \/ path[Len(path)] \notin DOMAIN g.nodes
    THEN NoSocket
    ELSE OutputNamed(g, path[Len(path)], InputRec(g, link.to_socket).name)

Answer(h, ret) == [h |-> h, ret |-> ret]

RECURSIVE check_if_is_linked_to_active_output_links(_, _, _, _, _)

\* "if ret is True: return True", else the next link; an exception leaves
\* the loop as well
check_if_is_linked_to_active_output_next(g, links, i, group_path, r) ==
    IF r.ret # "False"
    THEN r
    ELSE check_if_is_linked_to_active_output_links(g, r.h, links, i + 1,
                                                   group_path)

\* lines 803-812: the link enters a group instance; the instance is
\* appended to the list the caller handed in
check_if_is_linked_to_active_output_enter(g, h, links, i, group_path, soc) ==
    IF soc = NoSocket
    THEN Answer(h, "raise")
    ELSE check_if_is_linked_to_active_output_next(
             g, links, i, group_path,
             check_if_is_linked_to_active_output_links(
                 g, [h EXCEPT ![group_path] = Append(@, links[i].to_node)],
                 Links(g, soc), 1, group_path))

\* lines 815-824: the link leaves a group; group_path is bound to a new
\* list for the rest of the loop
check_if_is_linked_to_active_output_exit(g, h, links, i, group_path, soc) ==
    IF soc = NoSocket
    THEN Answer(h, "raise")
    ELSE check_if_is_linked_to_active_output_next(
             g, links, i, NewRef(h),
             check_if_is_linked_to_active_output_links(
                 g,
                 h @@ (NewRef(h) :>
                         SubSeq(h[group_path], 1, Len(h[group_path]) - 1)),
                 Links(g, soc), 1, NewRef(h)))

\* the loop of lines 800-833 from the i-th link on
check_if_is_linked_to_active_output_links(g, h, links, i, group_path) ==
    IF i > Len(links)
    THEN Answer(h, "False")
    ELSE
      CASE g.nodes[links[i].to_node].type = "GROUP" ->
             check_if_is_linked_to_active_output_enter(
                 g, h, links, i, group_path, EnteredSocket(g, links[i]))
        [] g.nodes[links[i].to_node].type = "GROUP_OUTPUT" ->
             check_if_is_linked_to_active_output_exit(
                 g, h, links, i, group_path,
                 LeftSocket(g, h[group_path], links[i]))
        [] /\ g.nodes[links[i].to_node].type = "OUTPUT_MATERIAL"
           /\ links[i].to_node \in g.active ->
             Answer(h, "True")
        [] OTHER ->
             IF DOMAIN g.nodes[links[i].to_node].outputs # {}
             THEN check_if_is_linked_to_active_output_next(
                      g, links, i, group_path,
                      check_if_is_linked_to_active_output_links(
                          g, h, Links(g, OutSock(links[i].to_node, 0)), 1,
                          group_path))
             ELSE check_if_is_linked_to_active_output_links(
                      g, h, links, i + 1, group_path)

\* check_if_is_linked_to_active_output(shader_socket, group_path), lines
\* 799-835
check_if_is_linked_to_active_output(g, h, shader_socket, group_path) ==
    check_if_is_linked_to_active_output_links(g, h, Links(g, shader_socket),
                                              1, group_path)

Found(h, soc, raised) == [h |-> h, sock |-> soc, raised |-> raised]

RECURSIVE get_node_socket_filter(_, _, _, _, _)

get_node_socket_keep(g, nodes, i, kept, r) ==
    IF r.ret = "raise"
    THEN [h |-> r.h, nodes |-> kept, raised |-> TRUE]
    ELSE get_node_socket_filter(
             g, r.h, nodes, i + 1,
             IF r.ret = "True" THEN Append(kept, nodes[i]) ELSE kept)

\* line 654: the nodes whose first output is linked to the active output
get_node_socket_filter(g, h, nodes, i, kept) ==
    IF i > Len(nodes)
    THEN [h |-> h, nodes |-> kept, raised |-> FALSE]
    ELSE get_node_socket_keep(
             g, nodes, i, kept,
             check_if_is_linked_to_active_output(
                 g, h, OutSock(nodes[i].node, 0), nodes[i].group_path))

\* lines 655-658: the first input with the name on the nodes kept
get_node_socket_inputs(g, name, r) ==
    LET inputs == SelectSeq(r.nodes,
                            LAMBDA n : InputNamed(g, n.node, name) # NoSocket)
    IN  IF r.raised
        THEN Found(r.h, NodeSocket(NoSocket, 0), TRUE)
        ELSE IF inputs # <<>>
        THEN Found(r.h,
                   NodeSocket(InputNamed(g, inputs[1].node, name),
                              inputs[1].group_path),
                   FALSE)
        ELSE Found(r.h, NodeSocket(NoSocket, 0), FALSE)

get_node_socket_nodes(g, name, r) ==
    get_node_socket_inputs(g, name,
                           get_node_socket_filter(g, r.h, r.nodes, 1, <<>>))

\* get_node_socket(blender_material, type, name), lines 626-639
get_node_socket(g, h, type, name) ==
    get_node_socket_nodes(
        g, name,
        get_material_nodes(g, h @@ (NewRef(h) :> <<Material>>), <<>>,
                           NewRef(h), type))

\* lines 656-661: the dedicated emission node supersedes the principled one
get_socket_emissive(g, emissive_socket) ==
    IF emissive_socket.raised \/ emissive_socket.sock.socket # NoSocket
    THEN emissive_socket
    ELSE get_node_socket(g, emissive_socket.h, "BSDF_PRINCIPLED",
                         "Emission Color")

\* get_socket(blender_material, name, volume), lines 642-673
get_socket(g, h, name, volume) ==
    IF g.use_nodes
    THEN CASE name = "Emissive" ->
                get_socket_emissive(g,
                                    get_node_socket(g, h, "EMISSION", "Color"))
           [] name = "Background" ->
                get_node_socket(g, h, "BACKGROUND", "Color")
           [] OTHER ->
                get_node_socket(g, h,
                                IF volume THEN "VOLUME_ABSORPTION"
                                ELSE "BSDF_PRINCIPLED",
                                name)
    ELSE Found(h, NodeSocket(NoSocket, 0), FALSE)

(***************************************************************************)
(* The socket resolver on a material: get_socket and the reachability test  *)
(* it rests on.                                                             *)
(***************************************************************************)
NoCursor ==
    [node |-> NoNode, in_socket |-> NoSocket, out_socket |-> NoSocket,
     stack |-> 0, moved |-> FALSE]

\* no NodeNav takes part
NoCursors ==
    /\ nav = NoCursor
    /\ nav2 = NoCursor
    /\ pre = [nav |-> NoView, nav2 |-> NoView]
    /\ pend = Idle

\* the names get_socket is asked for
SocketNames == {"Base Color", "Alpha", "Emissive", "Background", "Color"}

\* the record of a call of the resolver
Asked(op, name, volume, soc, ret, raised) ==
    [op |-> op, name |-> name, volume |-> volume, socket |-> soc,
     ret |-> ret, raised |-> raised]

\* the heap a call leaves, as far as a NodeSocket still refers to it
Kept(h, group_path) ==
    IF group_path = 0 THEN NoLists ELSE NoLists @@ (1 :> h[group_path])

InitSocket ==
    /\ scen \in Materials
    /\ graph = BuildMaterial(scen)
    /\ heap = NoLists
    /\ sock = NodeSocket(NoSocket, 0)
    /\ last = Asked("material", "", FALSE, NoSocket, "", FALSE)
    /\ NoCursors

Resolved(name, volume, r) ==
    /\ heap' = Kept(r.h, r.sock.group_path)
    /\ sock' = NodeSocket(r.sock.socket,
                          IF r.sock.group_path = 0 THEN 0 ELSE 1)
    /\ last' = Asked("get_socket", name, volume, NoSocket, "", r.raised)
    /\ UNCHANGED <<graph, scen, nav, nav2, pre, pend>>

GetSocket ==
    \E name \in SocketNames, volume \in BOOLEAN :
        Resolved(name, volume, get_socket(graph, NoLists, name, volume))

Tested(soc, r) ==
    /\ heap' = Kept(r.h, 1)
    /\ sock' = NodeSocket(soc, 1)
    /\ last' = Asked("check_if_is_linked_to_active_output", "", FALSE, soc,
                     r.ret, r.ret = "raise")
    /\ UNCHANGED <<graph, scen, nav, nav2, pre, pend>>

\* the test on an output of a node, with the group path get_material_nodes
\* records for the node
CheckIfIsLinkedToActiveOutput ==
    \E n \in DOMAIN graph.nodes :
        \E i \in DOMAIN graph.nodes[n].outputs :
            Tested(OutSock(n, i),
                   check_if_is_linked_to_active_output(
                       graph, NoLists @@ (1 :> GroupPath(graph, n)),
                       OutSock(n, i), 1))

NextSocket ==
    \/ GetSocket
    \/ CheckIfIsLinkedToActiveOutput

SpecSocket == InitSocket /\ [][NextSocket]_vars

RECURSIVE Reaches(_, _, _)
\* some forward path from an output socket reaches the active material
\* output; path is the sequence of group instances entered and not yet
\* left, a value of its own on every path
Reaches(g, soc, path) ==
    \E k \in 1 .. Len(Links(g, soc)) :
        LET link == Links(g, soc)[k]
            to == g.nodes[link.to_node]
        IN  CASE to.type = "GROUP" ->
                   /\ EnteredSocket(g, link) # NoSocket
                   /\ Reaches(g, EnteredSocket(g, link),
                              Append(path, link.to_node))
              [] to.type = "GROUP_OUTPUT" ->
                   /\ LeftSocket(g, path, link) # NoSocket
                   /\ Reaches(g, LeftSocket(g, path, link),
                              SubSeq(path, 1, Len(path) - 1))
              [] to.type = "OUTPUT_MATERIAL" /\ link.to_node \in g.active ->
                   TRUE
              [] OTHER ->
                   /\ DOMAIN to.outputs # {}
                   /\ Reaches(g, OutSock(link.to_node, 0), path)

\* C16: check_if_is_linked_to_active_output returns True exactly if some
\* forward path from the socket reaches a material output flagged active
\* (entering a group at the same-named group-input output, leaving it at the
\* same-named output of the innermost group instance entered on that path),
\* and False when every path dead-ends
C16_LinkedToActiveOutput ==
    last.op = "check_if_is_linked_to_active_output"
    => last.ret = IF Reaches(graph, last.socket,
                             GroupPath(graph, last.socket.node))
                  THEN "True"
                  ELSE "False"

\* an output has a link into a nested group instance before its link to
\* the group output
ForkedEarly == scen.grp \in {"fork", "fork_bare", "fork_cross"}

\* the same without a link into a group instance ahead of a link that
\* leaves the group
LinkedWithoutFork == ~ForkedEarly => C16_LinkedToActiveOutput

\* get_material_nodes comes by the node: no group instance on its path is
\* muted or holds the old glTF settings group
Visited(g, n) ==
    \A k \in 1 .. Len(g.nodes[n].path) :
        /\ g.nodes[n].path[k] \notin g.mute
        /\ g.nodes[n].path[k] \notin g.legacy

\* a node of the kind, not muted, whose first output reaches the active
\* output
Qualifies(g, n, type) ==
    /\ g.nodes[n].type = type
    /\ n \notin g.mute
    /\ Visited(g, n)
    /\ Reaches(g, OutSock(n, 0), GroupPath(g, n))

\* the place of a node in node_tree.nodes
Place(g, n) == CHOOSE k \in 1 .. Len(g.order) : g.order[k] = n

\* outer graph before nested groups, declaration order within a level
Before(g, m, n) ==
    \/ Len(g.nodes[m].path) < Len(g.nodes[n].path)
    \/ /\ g.nodes[m].path = g.nodes[n].path
       /\ Place(g, m) < Place(g, n)

\* the qualifying nodes of a kind that have an input of the name
Candidates(g, type, name) ==
    {n \in DOMAIN g.nodes :
        Qualifies(g, n, type) /\ InputNamed(g, n, name) # NoSocket}

\* the socket the resolver is to return
FirstSocket(g, type, name) ==
    IF g.use_nodes /\ Candidates(g, type, name) # {}
    THEN InputNamed(g,
                    CHOOSE n \in Candidates(g, type, name) :
                        \A m \in Candidates(g, type, name) \ {n} :
                            Before(g, n, m),
                    name)
    ELSE NoSocket

\* the kind of node get_socket looks at for a name other than "Emissive"
KindOf(name, volume) ==
    CASE name = "Background" -> "BACKGROUND"
      [] volume -> "VOLUME_ABSORPTION"
      [] OTHER -> "BSDF_PRINCIPLED"

\* C14: get_socket returns the input of the requested name on the first
\* node (outer graph before nested groups, declaration order within a
\* level) among the non-muted nodes of the requested kind whose first
\* output reaches the active material output, and the null socket when
\* there is no such node or the material does not use nodes
C14_FirstQualifyingSocket ==
    (last.op = "get_socket" /\ last.name # "Emissive")
    => /\ ~last.raised
       /\ sock.socket =
            FirstSocket(graph, KindOf(last.name, last.volume),
                        IF last.name = "Background" THEN "Color"
                        ELSE last.name)

\* the same without a link into a group instance ahead of a link that
\* leaves the group
FirstSocketWithoutFork == ~ForkedEarly => C14_FirstQualifyingSocket

\* C15: get_socket(material, "Emissive") returns the Color input of the
\* first qualifying emission node whenever one qualifies, and the
\* "Emission Color" input of the principled node only when none does
C15_EmissionNodePreferred ==
    (last.op = "get_socket" /\ last.name = "Emissive")
    => /\ FirstSocket(graph, "EMISSION", "Color") # NoSocket
          => /\ ~last.raised
             /\ sock.socket = FirstSocket(graph, "EMISSION", "Color")
       /\ NodeType(graph, sock.socket.node) = "BSDF_PRINCIPLED"
          => /\ FirstSocket(graph, "EMISSION", "Color") = NoSocket
             /\ InputRec(graph, sock.socket).name = "Emission Color"

\* the same without a link into a group instance ahead of a link that
\* leaves the group
EmissionPreferredWithoutFork == ~ForkedEarly => C15_EmissionNodePreferred

(***************************************************************************)
(* The filtered search from_socket.  search_path and group_path are lists   *)
(* of the heap; a result holds its link path by value (the list is built    *)
(* for the result and never changed) and its group path as the list it was  *)
(* given.                                                                   *)
(***************************************************************************)
\* FilterByType.__call__
FilterByType(g, type, shader_node) == g.nodes[shader_node].type = type

NodeTreeSearchResult(shader_node, path, group_path) ==
    [shader_node |-> shader_node, path |-> path, group_path |-> group_path]

Hits(h, results, raised) == [h |-> h, results |-> results, raised |-> raised]

\* the heap with two new lists, at NewRef(h) and NewRef(h) + 1
WithLists(h, a, b) == h @@ (NewRef(h) :> a) @@ ((NewRef(h) + 1) :> b)

\* the input of the Group Output node taken by position, the first one
GroupOutputSocket_first(g, link) ==
    LET outs == SelectSeq(NodesOfTree(g, g.nodes[link.from_node].path
                                         \o <<link.from_node>>),
                          LAMBDA n : g.nodes[n].type = "GROUP_OUTPUT")
    IN  IF ~g.nodes[link.from_node].has_tree \/ outs = <<>>
        THEN NoSocket
        ELSE InSock(outs[1], 0)

\* lines 93-94: the input of the group-output node of the tree of the group
\* instance that carries the name of the output the link leaves; NoSocket
\* where an index [0] fails
GroupOutputSocket(g, link) ==
    LET outs == SelectSeq(NodesOfTree(g, g.nodes[link.from_node].path
                                         \o <<link.from_node>>),
                          LAMBDA n : g.nodes[n].type = "GROUP_OUTPUT")
    IN  IF ~g.nodes[link.from_node].has_tree \/ outs = <<>>
        THEN NoSocket
        ELSE InputNamed(g, outs[1], OutputRec(g, link.from_socket).name)

\* line 104: the input of group_path[-1] that carries the name of the
\* group-input output the link leaves; NoSocket where the lookup fails
GroupInputSocket(g, path, link) ==
    IF path = <<>> \/ path[Len(path)] \notin DOMAIN g.nodes
    THEN NoSocket
    ELSE InputNamed(g, path[Len(path)], OutputRec(g, link.from_socket).name)

\* "if linked_results: search_path.append(link); results += linked_results"
search_from_socket_add(link, search_path, results, r) ==
    IF r.raised
    THEN r
    ELSE Hits(IF r.results # <<>>
              THEN [r.h EXCEPT ![search_path] = Append(@, link)]
              ELSE r.h,
              results \o r.results, FALSE)

RECURSIVE search_from_socket(_, _, _, _, _, _)

\* lines 92-101: the link comes from a group instance, which is appended to
\* the list the activation was given
search_from_socket_group(g, h, link, type, search_path, group_path, soc) ==
    IF soc = NoSocket
    THEN Hits(h, <<>>, TRUE)
    ELSE search_from_socket_add(
             link, search_path, <<>>,
             search_from_socket(
                 g,
                 WithLists([h EXCEPT ![group_path] =
                                Append(@, link.from_node)],
                           Append(h[search_path], link),
                           Append(h[group_path], link.from_node)),
                 soc, type, NewRef(h), NewRef(h) + 1))

\* lines 103-111: the link comes from a group-input node
search_from_socket_group_input(g, h, link, type, search_path, group_path, soc) ==
    IF soc = NoSocket
    THEN Hits(h, <<>>, TRUE)
    ELSE search_from_socket_add(
             link, search_path, <<>>,
             search_from_socket(
                 g,
                 WithLists(h, Append(h[search_path], link),
                           SubSeq(h[group_path], 1, Len(h[group_path]) - 1)),
                 soc, type, NewRef(h), NewRef(h) + 1))

RECURSIVE search_from_socket_inputs(_, _, _, _, _, _, _, _)

search_from_socket_input(g, link, type, search_path, group_path, i, r) ==
    IF r.raised
    THEN r
    ELSE search_from_socket_inputs(g, r.h, link, type, search_path,
                                   group_path, i + 1, r.results)

\* lines 116-121: the inputs of the linked node, from the i-th on
search_from_socket_inputs(g, h, link, type, search_path, group_path, i, results) ==
    IF i \notin DOMAIN g.nodes[link.from_node].inputs
    THEN Hits(h, results, FALSE)
    ELSE search_from_socket_input(
             g, link, type, search_path, group_path, i,
             search_from_socket_add(
                 link, search_path, results,
                 search_from_socket(
                     g,
                     WithLists(h, Append(h[search_path], link),
                               h[group_path]),
                     InSock(link.from_node, i), type, NewRef(h),
                     NewRef(h) + 1)))

\* lines 113-121: the filter on the linked node, then its inputs
search_from_socket_node(g, h, link, type, search_path, group_path) ==
    search_from_socket_inputs(
        g, h, link, type, search_path, group_path, 0,
        IF FilterByType(g, type, link.from_node)
        THEN <<NodeTreeSearchResult(link.from_node,
                                    Append(h[search_path], link), group_path)>>
        ELSE <<>>)

\* lines 88-121 for the one link of an input
search_from_socket_link(g, h, link, type, search_path, group_path) ==
    CASE g.nodes[link.from_node].type = "GROUP" ->
           search_from_socket_group(g, h, link, type, search_path, group_path,
                                    GroupOutputSocket(g, link))
      [] g.nodes[link.from_node].type = "GROUP_INPUT" ->
           search_from_socket_group_input(
               g, h, link, type, search_path, group_path,
               GroupInputSocket(g, h[group_path], link))
      [] OTHER ->
           search_from_socket_node(g, h, link, type, search_path, group_path)

\* __search_from_socket(start_socket, shader_node_filter, search_path,
\* group_path), lines 83-123
search_from_socket(g, h, start_socket, type, search_path, group_path) ==
    IF IsLinked(g, start_socket)
    THEN search_from_socket_link(g, h, FirstLink(g, start_socket), type,
                                 search_path, group_path)
    ELSE Hits(h, <<>>, FALSE)

\* from_socket(start_socket, shader_node_filter), lines 73-132
from_socket(g, h, start_socket, type) ==
    IF start_socket.socket = NoSocket
    THEN Hits(h, <<>>, FALSE)
    ELSE IF FilterByType(g, type, start_socket.socket.node)
    THEN Hits(h @@ (NewRef(h) :> h[start_socket.group_path]),
              <<NodeTreeSearchResult(start_socket.socket.node, <<>>,
                                     NewRef(h))>>,
              FALSE)
    ELSE search_from_socket(g, h @@ (NewRef(h) :> <<>>), start_socket.socket,
                            type, NewRef(h), start_socket.group_path)

(***************************************************************************)
(* Graphs for the filtered search: what feeds the Base Color input of a     *)
(* principled node.                                                         *)
(***************************************************************************)
Feeds ==
    {"none", "tex", "mix", "group", "group_mix", "group_in", "mix_group",
     "nested"}

Image1 == <<"T", 1, 0>>
Image2 == <<"T", 2, 0>>
Mix1 == <<"M", 1, 0>>
GroupIn1 == <<"GI", 1, 0>>

ImageNode(path) ==
    NodeRec("TEX_IMAGE", path, "", "", Named(<<"Vector">>),
            Named(<<"Color", "Alpha">>))

MixNode(path) ==
    NodeRec("MIX", path, "MIX", "", Named(<<"Factor", "A", "B">>),
            Named(<<"Result">>))

ColorGroup(path) ==
    NodeRec("GROUP", path, "", "", Named(<<"Color">>), Named(<<"Color">>))

ColorGroupOutput(path) ==
    NodeRec("GROUP_OUTPUT", path, "", "", Named(<<"Color">>), <<>>)

ColorGroupInput(path) ==
    NodeRec("GROUP_INPUT", path, "", "", <<>>, Named(<<"Color">>))

\* the nodes that feed the input, and their links
Feed(shape) ==
    CASE shape = "tex" ->
           [nodes |-> (Image1 :> ImageNode(<<>>)),
            links |-> {Link(Image1, 0, Principled1, 0)}]
      [] shape = "mix" ->
           [nodes |-> (Mix1 :> MixNode(<<>>)) @@ (Image1 :> ImageNode(<<>>))
                      @@ (Image2 :> ImageNode(<<>>)),
            links |-> {Link(Mix1, 0, Principled1, 0), Link(Image1, 0, Mix1, 1),
                       Link(Image2, 0, Mix1, 2)}]
      [] shape = "group" ->
           [nodes |-> (Group1 :> ColorGroup(<<>>))
                      @@ (GroupOut1 :> ColorGroupOutput(<<Group1>>))
                      @@ (Image1 :> ImageNode(<<Group1>>)),
            links |-> {Link(Group1, 0, Principled1, 0),
                       Link(Image1, 0, GroupOut1, 0)}]
      [] shape = "group_mix" ->
           [nodes |-> (Group1 :> ColorGroup(<<>>))
                      @@ (GroupOut1 :> ColorGroupOutput(<<Group1>>))
                      @@ (Mix1 :> MixNode(<<Group1>>))
                      @@ (Image1 :> ImageNode(<<Group1>>))
                      @@ (Image2 :> ImageNode(<<Group1>>)),
            links |-> {Link(Group1, 0, Principled1, 0),
                       Link(Mix1, 0, GroupOut1, 0), Link(Image1, 0, Mix1, 1),
                       Link(Image2, 0, Mix1, 2)}]
      [] shape = "group_in" ->
           [nodes |-> (Group1 :> ColorGroup(<<>>))
                      @@ (GroupOut1 :> ColorGroupOutput(<<Group1>>))
                      @@ (GroupIn1 :> ColorGroupInput(<<Group1>>))
                      @@ (Image1 :> ImageNode(<<>>)),
            links |-> {Link(Group1, 0, Principled1, 0),
                       Link(GroupIn1, 0, GroupOut1, 0),
                       Link(Image1, 0, Group1, 0)}]
      [] shape = "mix_group" ->
           [nodes |-> (Mix1 :> MixNode(<<>>)) @@ (Group1 :> ColorGroup(<<>>))
                      @@ (GroupOut1 :> ColorGroupOutput(<<Group1>>))
                      @@ (Image1 :> ImageNode(<<Group1>>))
                      @@ (Image2 :> ImageNode(<<>>)),
            links |-> {Link(Mix1, 0, Principled1, 0), Link(Group1, 0, Mix1, 1),
                       Link(Image1, 0, GroupOut1, 0),
                       Link(Image2, 0, Mix1, 2)}]
      [] shape = "nested" ->
           [nodes |-> (Group1 :> ColorGroup(<<>>))
                      @@ (GroupOut1 :> ColorGroupOutput(<<Group1>>))
                      @@ (Group2 :> ColorGroup(<<Group1>>))
                      @@ (GroupOut2 :> ColorGroupOutput(<<Group1, Group2>>))
                      @@ (Image1 :> ImageNode(<<Group1, Group2>>)),
            links |-> {Link(Group1, 0, Principled1, 0),
                       Link(Group2, 0, GroupOut1, 0),
                       Link(Image1, 0, GroupOut2, 0)}]
      [] OTHER -> [nodes |-> <<>>, links |-> {}]

BuildSearch(shape) ==
    [nodes |-> (Principled1 :> ShaderNode("BSDF_PRINCIPLED", <<>>))
               @@ Feed(shape).nodes,
     links |-> Feed(shape).links,
     order |-> <<Principled1, Mix1, Group1, Image1, Image2, GroupIn1,
                 GroupOut1, Group2, GroupOut2>>]

\* the node kinds a search filters by
SearchFilters == {"TEX_IMAGE", "MIX", "BSDF_PRINCIPLED"}

\* the calls of from_socket on one NodeSocket
MaxSearches == 3

\* the results of a call with the group paths as they are when it returns
ResultList(r) ==
    [k \in 1 .. Len(r.results) |->
        [r.results[k] EXCEPT !.group_path = r.h[@]]]

Searched(calls, type, before, prev, res, raised) ==
    [op |-> "from_socket", calls |-> calls, type |-> type, before |-> before,
     prev |-> prev, res |-> res, raised |-> raised]

\* the NodeSockets a search starts at: an input of a node with the group
\* path of the node, or NodeSocket(None, None)
InitSearch ==
    /\ scen \in [feed : Feeds, type : SearchFilters]
    /\ graph = BuildSearch(scen.feed)
    /\ \/ /\ sock = NodeSocket(NoSocket, 0)
          /\ heap = NoLists
       \/ \E n \in DOMAIN graph.nodes :
              \E i \in DOMAIN graph.nodes[n].inputs :
                  /\ sock = NodeSocket(InSock(n, i), 1)
                  /\ heap = NoLists @@ (1 :> GroupPath(graph, n))
    /\ last = Searched(0, scen.type, <<>>, <<>>, <<>>, FALSE)
    /\ NoCursors

Listed(r) ==
    /\ heap' = [heap EXCEPT ![sock.group_path] = r.h[sock.group_path]]
    /\ last' = Searched(last.calls + 1, scen.type, heap[sock.group_path],
                        last.res, ResultList(r), r.raised)
    /\ UNCHANGED <<graph, scen, sock, nav, nav2, pre, pend>>

\* result = from_socket(socket, FilterByType(type))
FromSocket ==
    /\ last.calls < MaxSearches
    /\ Listed(from_socket(graph, heap, sock, scen.type))

NextSearch == FromSocket

SpecSearch == InitSearch /\ [][NextSearch]_vars

\* C20: two calls of from_socket with the same NodeSocket and the same
\* filter on an unchanged graph return equal result lists, and a call
\* leaves the group_path of the NodeSocket as it was
C20_SearchIdempotent ==
    (last.op = "from_socket" /\ last.calls > 0)
    => /\ ~last.raised
       /\ heap[sock.group_path] = last.before
       /\ last.calls > 1 => last.res = last.prev

\* the start socket is fed directly by a group instance
FedByGroup ==
    /\ IsLinked(graph, sock.socket)
    /\ NodeType(graph, FirstLink(graph, sock.socket).from_node) = "GROUP"

\* the same for the start sockets that no group instance feeds directly
IdempotentUnlessFedByGroup ==
    (sock.socket # NoSocket /\ ~FedByGroup) => C20_SearchIdempotent

(***************************************************************************)
(* Graphs for the anisotropy detector: the chain the detector asks for,     *)
(* and the chain with one part changed.                                     *)
(***************************************************************************)
Tangent1 == <<"TAN", 1, 0>>
Reroute1 == <<"RR", 1, 0>>
VectMath1 == <<"VM", 1, 0>>
Separate1 == <<"SEP", 1, 0>>
Multiply1 == <<"MUL", 1, 0>>
Arctan1 == <<"ATAN", 1, 0>>
Add1 == <<"ADD", 2, 0>>
Divide1 == <<"DIV", 1, 0>>
Value1 == <<"VAL", 1, 0>>
Rgb1 == <<"RGB", 1, 0>>
Glossy1 == <<"GLOSSY", 1, 0>>

\* 6.283185 and the tolerance 0.0001 of line 976, in millionths
TwoPi == 6283185
Tolerance == 100

\* sockets of a type with names and default values
Typed(ty, names, dvs) ==
    [i \in 0 .. (Len(names) - 1) |->
        SocketRec(ty, dvs[i + 1], names[i + 1], names[i + 1])]

\* a math node; dv is the default value of its second input
MathNode(ty, op, dv) ==
    [NodeRec(ty, <<>>, op, "",
             Typed("VALUE", <<"Value", "Value">>, <<<<5>>, dv>>),
             Typed("VALUE", <<"Value">>, <<<<0>>>>))
        EXCEPT !.operation = op]

\* a vector math node; c1 and c2 are the default values of its second and
\* third input
VectMathNode(ty, op, c1, c2) ==
    [NodeRec(ty, <<>>, op, "",
             Typed("VECTOR", <<"Vector", "Vector", "Vector">>,
                   <<<<0, 0, 0>>, c1, c2>>),
             Typed("VECTOR", <<"Vector">>, <<<<0, 0, 0>>>>))
        EXCEPT !.operation = op]

TangentNode(ty, path, direction_type, uv_map) ==
    NodeRec(ty, path, "", "", <<>>,
            Typed("VECTOR", <<"Tangent">>, <<<<0, 0, 0>>>>))
    @@ [direction_type |-> direction_type, uv_map |-> uv_map]

TexImage(image) ==
    NodeRec("TEX_IMAGE", <<>>, "", "",
            Typed("VECTOR", <<"Vector">>, <<<<0, 0, 0>>>>),
            Typed("RGBA", <<"Color", "Alpha">>,
                  <<<<0, 0, 0, Unit>>, <<0, 0, 0, Unit>>>>))
    @@ [image |-> image]

\* the chain as the detector asks for it
Canonical ==
    [tan |-> "direct", mul |-> "ok", atan |-> "ok", add |-> "ok",
     div |-> "ok", vma |-> "ok", strength |-> "half", rotation |-> 0,
     sockets |-> "all"]

\* the values of a part that keep the chain, and those that change it
Parts ==
    [tan |-> {"direct", "reroute", "group", "none", "normal", "radial"},
     mul |-> {"ok", "mix", "add", "unfed", "from_y", "from_tex", "loose"},
     atan |-> {"ok", "swapped", "no_y", "no_x", "sine", "mix", "loose"},
     add |-> {"ok", "subtract", "mix", "loose"},
     div |-> {"ok", "near", "multiply", "mix", "pi", "loose", "other_socket",
              "other_node"},
     vma |-> {"ok", "math", "add", "scale", "offset", "unfed", "loose",
              "from_rgb", "no_image"},
     sockets |-> {"all", "no_anisotropy", "no_rotation", "no_tangent"}]

Keeping ==
    [tan |-> {"direct", "reroute", "group"}, mul |-> {"ok"}, atan |-> {"ok"},
     add |-> {"ok"}, div |-> {"ok", "near"}, vma |-> {"ok"},
     sockets |-> {"all"}]

\* the chain is as the detector asks for it
Intact(q) == \A f \in DOMAIN Parts : q[f] \in Keeping[f]

\* the parts of the chain that are changed
Changed(q) == {f \in DOMAIN Parts : q[f] \notin Keeping[f]}

Strengths == {"half", "one", "value_node", "texture"}

Rotations == {0, 2}

\* the chain, and the chain with one part changed
Chains ==
    {q \in [tan : Parts.tan, mul : Parts.mul, atan : Parts.atan,
            add : Parts.add, div : Parts.div, vma : Parts.vma,
            strength : Strengths, rotation : Rotations,
            sockets : Parts.sockets] :
        /\ Cardinality(Changed(q)) <= 1
        /\ Cardinality({f \in DOMAIN Parts : q[f] # Canonical[f]}) <= 2}

ChainNodes(q) ==
    (Principled1 :>
       NodeRec("BSDF_PRINCIPLED", <<>>, "", "",
               (0 :> SocketRec("VALUE", <<0>>, "Anisotropic", "Anisotropic"))
               @@ (1 :> SocketRec("VALUE", <<0>>, "Anisotropic Rotation",
                                  "Anisotropic Rotation"))
               @@ (2 :> SocketRec("VECTOR", <<0, 0, 0>>, "Tangent", "Tangent"))
               @@ (3 :> SocketRec("VALUE", <<5>>, "Roughness", "Roughness")),
               Named(<<"BSDF">>)))
    @@ (Glossy1 :>
          NodeRec("BSDF_GLOSSY", <<>>, "", "",
                  Typed("VALUE", <<"Anisotropic Rotation">>, <<<<0>>>>),
                  Named(<<"BSDF">>)))
    @@ (IF q.tan = "none" THEN <<>>
        ELSE (Tangent1 :>
                TangentNode(IF q.tan = "normal" THEN "NORMAL_MAP"
                            ELSE "TANGENT",
                            IF q.tan = "group" THEN <<Group1>> ELSE <<>>,
                            IF q.tan = "radial" THEN "RADIAL" ELSE "UV_MAP",
                            "UVMap")))
    @@ (IF q.tan = "reroute"
        THEN (Reroute1 :>
                NodeRec("REROUTE", <<>>, "", "",
                        Typed("VECTOR", <<"Input">>, <<<<0, 0, 0>>>>),
                        Typed("VECTOR", <<"Output">>, <<<<0, 0, 0>>>>)))
        ELSE <<>>)
    @@ (IF q.tan = "group"
        THEN (Group1 :>
                NodeRec("GROUP", <<>>, "", "", <<>>,
                        Typed("VECTOR", <<"Tangent">>, <<<<0, 0, 0>>>>)))
             @@ (GroupOut1 :>
                   NodeRec("GROUP_OUTPUT", <<Group1>>, "", "",
                           Typed("VECTOR", <<"Tangent">>, <<<<0, 0, 0>>>>),
                           <<>>))
        ELSE <<>>)
    @@ (Multiply1 :>
          MathNode(IF q.mul = "mix" THEN "MIX" ELSE "MATH",
                   IF q.mul = "add" THEN "ADD" ELSE "MULTIPLY",
                   IF q.strength = "one" THEN <<Unit>> ELSE <<5>>))
    @@ (Separate1 :>
          NodeRec("SEPXYZ", <<>>, "", "",
                  Typed("VECTOR", <<"Vector">>, <<<<0, 0, 0>>>>),
                  Typed("VALUE", <<"X", "Y", "Z">>, <<<<0>>, <<0>>, <<0>>>>)))
    @@ (Arctan1 :>
          MathNode(IF q.atan = "mix" THEN "MIX" ELSE "MATH",
                   IF q.atan = "sine" THEN "SINE" ELSE "ARCTAN2", <<5>>))
    @@ (Add1 :>
          MathNode(IF q.add = "mix" THEN "MIX" ELSE "MATH",
                   IF q.add = "subtract" THEN "SUBTRACT" ELSE "ADD",
                   <<q.rotation>>))
    @@ (Divide1 :>
          MathNode(IF q.div = "mix" THEN "MIX" ELSE "MATH",
                   IF q.div = "multiply" THEN "MULTIPLY" ELSE "DIVIDE",
                   CASE q.div = "near" -> <<TwoPi + Tolerance>>
                     [] q.div = "pi" -> <<TwoPi \div 2>>
                     [] OTHER -> <<TwoPi>>))
    @@ (VectMath1 :>
          VectMathNode(IF q.vma = "math" THEN "MATH" ELSE "VECT_MATH",
                       IF q.vma = "add" THEN "ADD" ELSE "MULTIPLY_ADD",
                       IF q.vma = "scale" THEN <<Unit, Unit, Unit>>
                       ELSE <<2 * Unit, 2 * Unit, Unit>>,
                       IF q.vma = "offset" THEN <<0, 0, 0>>
                       ELSE <<-Unit, -Unit, 0>>))
    @@ (Image1 :> TexImage(q.vma # "no_image"))
    @@ (Image2 :> TexImage(TRUE))
    @@ (Rgb1 :>
          NodeRec("RGB", <<>>, "", "", <<>>,
                  Typed("RGBA", <<"Color">>, <<<<5, 5, 5, Unit>>>>)))
    @@ (Value1 :>
          NodeRec("VALUE", <<>>, "", "", <<>>,
                  Typed("VALUE", <<"Value">>, <<<<5>>>>)))

\* socket.links of the outputs of the chain
ChainLinks(q) ==
    (CASE q.tan \in {"direct", "normal", "radial"} ->
            (OutSock(Tangent1, 0) :> <<Link(Tangent1, 0, Principled1, 2)>>)
       [] q.tan = "reroute" ->
            (OutSock(Tangent1, 0) :> <<Link(Tangent1, 0, Reroute1, 0)>>)
            @@ (OutSock(Reroute1, 0) :> <<Link(Reroute1, 0, Principled1, 2)>>)
       [] q.tan = "group" ->
            (OutSock(Tangent1, 0) :> <<Link(Tangent1, 0, GroupOut1, 0)>>)
            @@ (OutSock(Group1, 0) :> <<Link(Group1, 0, Principled1, 2)>>)
       [] OTHER -> <<>>)
    @@ (IF q.mul = "loose" THEN <<>>
        ELSE (OutSock(Multiply1, 0) :> <<Link(Multiply1, 0, Principled1, 0)>>))
    @@ (OutSock(Separate1, 2) :>
          IF q.mul \in {"unfed", "from_y", "from_tex"} THEN <<>>
          ELSE <<Link(Separate1, 2, Multiply1, 0)>>)
    @@ (OutSock(Separate1, 0) :>
          CASE q.atan = "no_x" -> <<>>
            [] q.atan = "swapped" -> <<Link(Separate1, 0, Arctan1, 0)>>
            [] OTHER -> <<Link(Separate1, 0, Arctan1, 1)>>)
    @@ (OutSock(Separate1, 1) :>
          (CASE q.atan = "no_y" -> <<>>
             [] q.atan = "swapped" -> <<Link(Separate1, 1, Arctan1, 1)>>
             [] OTHER -> <<Link(Separate1, 1, Arctan1, 0)>>)
          \o (IF q.mul = "from_y" THEN <<Link(Separate1, 1, Multiply1, 0)>>
              ELSE <<>>))
    @@ (OutSock(Arctan1, 0) :>
          IF q.atan = "loose" THEN <<>> ELSE <<Link(Arctan1, 0, Add1, 0)>>)
    @@ (OutSock(Add1, 0) :>
          IF q.add = "loose" THEN <<>> ELSE <<Link(Add1, 0, Divide1, 0)>>)
    @@ (OutSock(Divide1, 0) :>
          CASE q.div = "loose" -> <<>>
            [] q.div = "other_socket" ->
                 <<Link(Divide1, 0, Principled1, 3),
                   Link(Divide1, 0, Principled1, 1)>>
            [] q.div = "other_node" ->
                 <<Link(Divide1, 0, Glossy1, 0),
                   Link(Divide1, 0, Principled1, 1)>>
            [] OTHER -> <<Link(Divide1, 0, Principled1, 1)>>)
    @@ (OutSock(VectMath1, 0) :>
          IF q.vma = "loose" THEN <<>>
          ELSE <<Link(VectMath1, 0, Separate1, 0)>>)
    @@ (OutSock(Image1, 0) :>
          IF q.vma \in {"unfed", "from_rgb"} THEN <<>>
          ELSE <<Link(Image1, 0, VectMath1, 0)>>)
    @@ (OutSock(Rgb1, 0) :>
          IF q.vma = "from_rgb" THEN <<Link(Rgb1, 0, VectMath1, 0)>>
          ELSE <<>>)
    @@ (OutSock(Image2, 0) :>
          (IF q.mul = "from_tex" THEN <<Link(Image2, 0, Multiply1, 0)>>
           ELSE <<>>))
    @@ (OutSock(Image2, 1) :>
          (IF q.strength = "texture" THEN <<Link(Image2, 1, Multiply1, 1)>>
           ELSE <<>>))
    @@ (OutSock(Value1, 0) :>
          IF q.strength = "value_node" THEN <<Link(Value1, 0, Multiply1, 1)>>
          ELSE <<>>)

\* the links of a graph, from the links of its outputs
AllLinks(fanout) ==
    UNION {{fanout[s][k] : k \in 1 .. Len(fanout[s])} : s \in DOMAIN fanout}

BuildChain(q) ==
    [nodes |-> ChainNodes(q),
     fanout |-> ChainLinks(q),
     links |-> AllLinks(ChainLinks(q)),
     order |-> <<Principled1, Tangent1, Group1, GroupOut1>>]

(***************************************************************************)
(* The anisotropy detector.                                                 *)
(***************************************************************************)
Previous(soc, group_path, raised) ==
    [socket |-> soc, group_path |-> group_path, raised |-> raised]

RECURSIVE previous_socket_loop(_, _, _)
\* the loop of previous_socket, lines 689-718; group_path is the copy made
\* at line 688
previous_socket_loop(g, soc, group_path) ==
    IF ~IsLinked(g, soc)
    THEN Previous(NoSocket, <<>>, FALSE)
    ELSE
      CASE NodeType(g, FirstLink(g, soc).from_node) = "GROUP" ->
             IF GroupOutputSocket(g, FirstLink(g, soc)) = NoSocket
             THEN Previous(NoSocket, <<>>, TRUE)
             ELSE previous_socket_loop(
                      g, GroupOutputSocket(g, FirstLink(g, soc)),
                      Append(group_path, FirstLink(g, soc).from_node))
        [] NodeType(g, FirstLink(g, soc).from_node) = "GROUP_INPUT" ->
             IF GroupInputSocket(g, group_path, FirstLink(g, soc)) = NoSocket
             THEN Previous(NoSocket, <<>>, TRUE)
             ELSE previous_socket_loop(
                      g, GroupInputSocket(g, group_path, FirstLink(g, soc)),
                      SubSeq(group_path, 1, Len(group_path) - 1))
        [] NodeType(g, FirstLink(g, soc).from_node) = "REROUTE" ->
             previous_socket_loop(g, InSock(FirstLink(g, soc).from_node, 0),
                                  group_path)
        [] OTHER -> Previous(FirstLink(g, soc).from_socket, group_path, FALSE)

\* previous_socket(socket), lines 686-718
previous_socket(g, soc, group_path) == previous_socket_loop(g, soc, group_path)

\* previous_node(socket), lines 721-725: ShNode(node, group_path)
previous_node(g, soc, group_path) ==
    [node |-> previous_socket(g, soc, group_path).socket.node,
     group_path |-> previous_socket(g, soc, group_path).group_path,
     raised |-> previous_socket(g, soc, group_path).raised]

\* get_const_from_socket(socket, kind), lines 682-683
get_const_from_socket_nav(g, t) == get_constant(g, t.h, t.c, SelNone).res

get_const_from_socket(g, soc, group_path) ==
    get_const_from_socket_nav(g, to_node_nav((1 :> <<>>), soc, group_path))

\* get_texture_node_from_socket, lines 135-143, and
\* has_image_node_from_socket, lines 145-147
has_image_node_from_socket_result(g, r) ==
    IF r.raised
    THEN "raise"
    ELSE IF r.results = <<>> \/ ~g.nodes[r.results[1].shader_node].image
    THEN "False"
    ELSE "True"

has_image_node_from_socket(g, soc, group_path) ==
    has_image_node_from_socket_result(
        g,
        from_socket(g, NoLists @@ (1 :> group_path), NodeSocket(soc, 1),
                    "TEX_IMAGE"))

\* (False, None)
NotDetected == [ret |-> "False", data |-> PyNone]

\* an exception leaves the detector
DetectorRaised == [ret |-> "raise", data |-> PyNone]

\* the first link of an output: socket.links[0]
Leaving(g, n, i) == Links(g, OutSock(n, i))[1]

\* an output is linked
Leaves(g, n, i) == Links(g, OutSock(n, i)) # <<>>

\* lines 1009-1014
detect_anisotropy_nodes_bundle(group_path, tangent_node, vma, strength, rotation) ==
    IF strength = PyRaise \/ rotation = PyRaise
    THEN DetectorRaised
    ELSE [ret |-> "True",
          data |-> [anisotropyStrength |-> strength,
                    anisotropyRotation |-> rotation,
                    tangent |-> tangent_node.uv_map,
                    tex_socket |-> [socket |-> InSock(vma, 0),
                                    group_path |-> group_path]]]

\* lines 1005-1014
detect_anisotropy_nodes_texture(g, group_path, tangent_node, mul, add, vma, tex_ok) ==
    CASE tex_ok = "raise" -> DetectorRaised
      [] tex_ok = "False" -> NotDetected
      [] OTHER ->
           detect_anisotropy_nodes_bundle(
               group_path, tangent_node, vma,
               get_const_from_socket(g, InSock(mul, 1), group_path),
               get_const_from_socket(g, InSock(add, 1), group_path))

\* lines 990-1014: the multiply-add node and the texture that feeds it
detect_anisotropy_nodes_multiply_add(g, group_path, tangent_node, mul, add, vma) ==
    IF \/ g.nodes[vma].type # "VECT_MATH"
       \/ g.nodes[vma].operation # "MULTIPLY_ADD"
       \/ InputRec(g, InSock(vma, 1)).default_value
            # <<2 * Unit, 2 * Unit, Unit>>
       \/ InputRec(g, InSock(vma, 2)).default_value # <<-Unit, -Unit, 0>>
       \/ ~IsLinked(g, InSock(vma, 0))
    THEN NotDetected
    ELSE IF g.nodes[FirstLink(g, InSock(vma, 0)).from_node].type # "TEX_IMAGE"
    THEN NotDetected
    ELSE detect_anisotropy_nodes_texture(
             g, group_path, tangent_node, mul, add, vma,
             has_image_node_from_socket(g, InSock(vma, 0), group_path))

\* lines 971-1014: the node that converts the rotation
detect_anisotropy_nodes_conversion(g, group_path, tangent_node, mul, sep, add, div) ==
    IF \/ g.nodes[div].type # "MATH"
       \/ g.nodes[div].operation # "DIVIDE"
    THEN NotDetected
    ELSE IF \/ InputRec(g, InSock(div, 1)).default_value[1] - TwoPi
                 > Tolerance
            \/ TwoPi - InputRec(g, InSock(div, 1)).default_value[1]
                 > Tolerance
    THEN NotDetected
    ELSE IF ~Leaves(g, div, 0)
    THEN NotDetected
    ELSE IF \/ InputRec(g, Leaving(g, div, 0).to_socket).name
                 # "Anisotropic Rotation"
            \/ g.nodes[Leaving(g, div, 0).to_node].type # "BSDF_PRINCIPLED"
            \/ ~IsLinked(g, InSock(sep, 0))
    THEN NotDetected
    ELSE detect_anisotropy_nodes_multiply_add(
             g, group_path, tangent_node, mul, add,
             FirstLink(g, InSock(sep, 0)).from_node)

\* lines 963-1014: the node that adds the rotation
detect_anisotropy_nodes_rotation(g, group_path, tangent_node, mul, sep, add) ==
    IF \/ g.nodes[add].type # "MATH"
       \/ g.nodes[add].operation # "ADD"
       \/ ~Leaves(g, add, 0)
    THEN NotDetected
    ELSE detect_anisotropy_nodes_conversion(
             g, group_path, tangent_node, mul, sep, add,
             Leaving(g, add, 0).to_node)

\* lines 951-1014: the arctangent node; lines 955 and 957 take links[0] of
\* its inputs without asking whether they are linked
detect_anisotropy_nodes_arctan2(g, group_path, tangent_node, mul, sep, atan) ==
    IF \/ g.nodes[atan].type # "MATH"
       \/ g.nodes[atan].operation # "ARCTAN2"
    THEN NotDetected
    ELSE IF ~IsLinked(g, InSock(atan, 0))
    THEN DetectorRaised
    ELSE IF OutputRec(g, FirstLink(g, InSock(atan, 0)).from_socket).name # "Y"
    THEN NotDetected
    ELSE IF ~IsLinked(g, InSock(atan, 1))
    THEN DetectorRaised
    ELSE IF OutputRec(g, FirstLink(g, InSock(atan, 1)).from_socket).name # "X"
    THEN NotDetected
    ELSE IF ~Leaves(g, atan, 0)
    THEN NotDetected
    ELSE detect_anisotropy_nodes_rotation(g, group_path, tangent_node, mul,
                                          sep, Leaving(g, atan, 0).to_node)

\* lines 941-1014: the node that separates the vector
detect_anisotropy_nodes_separate(g, group_path, tangent_node, mul, link) ==
    IF \/ g.nodes[link.from_node].type # "SEPXYZ"
       \/ OutputRec(g, link.from_socket).name # "Z"
       \/ ~Leaves(g, link.from_node, 0)
    THEN NotDetected
    ELSE detect_anisotropy_nodes_arctan2(
             g, group_path, tangent_node, mul, link.from_node,
             Leaving(g, link.from_node, 0).to_node)

\* lines 933-1014: the multiply node
detect_anisotropy_nodes_multiply(g, group_path, tangent_node, mul) ==
    IF \/ g.nodes[mul].type # "MATH"
       \/ g.nodes[mul].operation # "MULTIPLY"
       \/ ~IsLinked(g, InSock(mul, 0))
    THEN NotDetected
    ELSE detect_anisotropy_nodes_separate(g, group_path, tangent_node, mul,
                                          FirstLink(g, InSock(mul, 0)))

\* lines 920-1014: the tangent node, then the three sockets are linked
detect_anisotropy_nodes_tangent(g, a, r, t, group_path, tangent_node) ==
    IF tangent_node.raised
    THEN DetectorRaised
    ELSE IF \/ tangent_node.node = NoNode
            \/ g.nodes[tangent_node.node].type # "TANGENT"
    THEN NotDetected
    ELSE IF \/ g.nodes[tangent_node.node].direction_type # "UV_MAP"
            \/ ~IsLinked(g, a)
            \/ ~IsLinked(g, r)
            \/ ~IsLinked(g, t)
    THEN NotDetected
    ELSE detect_anisotropy_nodes_multiply(g, group_path,
                                          g.nodes[tangent_node.node],
                                          FirstLink(g, a).from_node)

\* detect_anisotropy_nodes(anisotropy_socket, anisotropy_rotation_socket,
\* anisotropy_tangent_socket, export_settings), lines 897-1014; a, r and t
\* are the sockets of the three NodeSockets, which share group_path
detect_anisotropy_nodes(g, a, r, t, group_path) ==
    IF a = NoSocket \/ r = NoSocket \/ t = NoSocket
    THEN NotDetected
    ELSE detect_anisotropy_nodes_tangent(g, a, r, t, group_path,
                                         previous_node(g, t, group_path))

Detected(op, r) == [op |-> op, ret |-> r.ret, data |-> r.data]

\* the socket of the principled node a NodeSocket is made of, None where
\* the resolver found none
ChainSocket(q, i, missing) ==
    IF q.sockets = missing THEN NoSocket ELSE InSock(Principled1, i)

InitAniso ==
    /\ scen \in Chains
    /\ graph = BuildChain(scen)
    /\ heap = NoLists @@ (1 :> <<Material>>)
    /\ sock = NodeSocket(ChainSocket(scen, 0, "no_anisotropy"), 1)
    /\ last = Detected("material", NotDetected)
    /\ NoCursors

DetectAnisotropyNodes ==
    /\ last' = Detected("detect_anisotropy_nodes",
                        detect_anisotropy_nodes(
                            graph, sock.socket,
                            ChainSocket(scen, 1, "no_rotation"),
                            ChainSocket(scen, 2, "no_tangent"),
                            heap[sock.group_path]))
    /\ UNCHANGED <<graph, scen, heap, sock, nav, nav2, pre, pend>>

NextAniso == DetectAnisotropyNodes

SpecAniso == InitAniso /\ [][NextAniso]_vars

\* the detector returned (False, None)
NotAnisotropic == last.ret = "False" /\ last.data = PyNone

\* the bundle of a detection has all four entries, none of them None
CompleteBundle ==
    /\ last.data.anisotropyStrength.kind = "float"
    /\ last.data.anisotropyRotation.kind = "float"
    /\ last.data.tangent # ""
    /\ last.data.tex_socket.socket # NoSocket

\* C19: detect_anisotropy_nodes returns (False, None), without raising, for
\* every graph that departs from the chain in one respect (node kind,
\* operation, fixed constant, missing link), and a detection carries a
\* complete bundle
C19_StrictChain ==
    last.op = "detect_anisotropy_nodes"
    => /\ ~Intact(scen) => NotAnisotropic
       /\ last.ret = "True" => CompleteBundle

\* the first half for the chains whose arctangent node has both operands
\* linked
StrictWithArctanOperands ==
    (last.op = "detect_anisotropy_nodes" /\ scen.atan # "no_y" /\ ~Intact(scen))
    => NotAnisotropic

\* the second half for a strength given as the default of the input
CompleteWithDefaultStrength ==
    (/\ last.op = "detect_anisotropy_nodes"
     /\ scen.strength \in {"half", "one"}
     /\ last.ret = "True")
    => CompleteBundle

\* the intact chain with a strength given as a default is detected
DetectsIntactChain ==
    (/\ last.op = "detect_anisotropy_nodes"
     /\ Intact(scen)
     /\ scen.strength \in {"half", "one"})
    => last.ret = "True"

(***************************************************************************)
(* The specular extension.  export_specular asks gltf2_blender_get for the  *)
(* two sockets, for the factor of a linked socket and for whether a         *)
(* texture drives it; a material is given here by what those answers are.   *)
(***************************************************************************)
\* a socket of the principled node as export_specular sees it: linked or
\* not, its default value, the factor get_factor_from_socket extracts for
\* it and whether has_image_node_from_socket finds a texture
SpecularSocket(is_linked, default_value, factor, image) ==
    [is_linked |-> is_linked, default_value |-> default_value,
     factor |-> factor, image |-> image]

\* get_socket found no such input: None
MissingSocket == SpecularSocket(FALSE, <<>>, PyNone, FALSE) @@ [none |-> TRUE]

Present(s) == "none" \notin DOMAIN s

White == <<Unit, Unit, Unit>>

\* the specular-strength sockets: unlinked with a default, or linked with
\* the factor extracted (None: no constant found) with or without a texture
StrengthSockets ==
    {MissingSocket}
    \cup {SpecularSocket(FALSE, <<d>>, PyNone, FALSE) : d \in {3, 5, 8, Unit}}
    \cup {SpecularSocket(TRUE, <<5>>, f, i) :
            f \in {PyNone, PyFloat(3), PyFloat(5), PyFloat(8), PyFloat(Unit)},
            i \in BOOLEAN}

\* the specular-tint sockets
TintSockets ==
    {MissingSocket}
    \cup {SpecularSocket(FALSE, d, PyNone, FALSE) :
            d \in {<<Unit, Unit, Unit, Unit>>, <<5, 5, 5, Unit>>,
                   <<Unit, 5, 0, Unit>>}}
    \cup {SpecularSocket(TRUE, <<Unit, Unit, Unit, Unit>>, f, i) :
            f \in {PyNone, PyList(White), PyList(<<5, 5, 5>>)},
            i \in BOOLEAN}

\* gltf2_blender_get.get_socket(blender_material, name)
gltf2_blender_get_get_socket(blender_material, name) == blender_material[name]

\* gltf2_blender_get.get_factor_from_socket(socket, kind): the constant of
\* the socket or the constant multiplier in front of it, None if there is
\* none
gltf2_blender_get_get_factor_from_socket(socket) == socket.factor

\* gltf2_blender_get.has_image_node_from_socket(socket)
gltf2_blender_get_has_image_node_from_socket(socket) == socket.image

\* gather_texture_info(socket, ...): the texture info of the texture that
\* drives the socket
gather_texture_info(name) == PyStr(name)

\* x * y for two numbers with Unit as one
Times(x, y) == (x * y) \div Unit

\* (color[0] * fac, color[1] * fac, color[2] * fac)
Scaled(color, fac) ==
    <<Times(color[1], fac), Times(color[2], fac), Times(color[3], fac)>>

\* the local variables of export_specular
Assembly(specularFactor, specularTexture, specularColorFactor, specularColorTexture, extensions_needed, fac) ==
    [specularFactor |-> specularFactor, specularTexture |-> specularTexture,
     specularColorFactor |-> specularColorFactor,
     specularColorTexture |-> specularColorTexture,
     extensions_needed |-> extensions_needed, fac |-> fac]

\* lines 38-45 and 52-57: the doubled factor fac
export_specular_factor(fac) ==
    Assembly(IF fac < Unit THEN PyFloat(fac) ELSE PyAbsent, PyAbsent, PyAbsent,
             PyAbsent, fac # Unit, PyFloat(fac))

\* lines 59-69: the texture of the strength
export_specular_texture(socket, e) ==
    IF gltf2_blender_get_has_image_node_from_socket(socket)
    THEN [e EXCEPT !.specularTexture = gather_texture_info("specularTexture"),
                   !.extensions_needed = TRUE]
    ELSE e

\* lines 49-57: the factor of a linked strength
export_specular_linked(fac) ==
    IF fac # PyNone /\ fac.val[1] # Unit
    THEN export_specular_factor(2 * fac.val[1])
    ELSE Assembly(PyAbsent, PyAbsent, PyAbsent, PyAbsent, FALSE, fac)

\* lines 35-69: the strength
export_specular_strength(socket) ==
    IF ~socket.is_linked
    THEN export_specular_factor(2 * socket.default_value[1])
    ELSE export_specular_texture(
             socket,
             export_specular_linked(
                 gltf2_blender_get_get_factor_from_socket(socket)))

\* lines 72-77: the tint of an unlinked socket
export_specular_color(e, color) ==
    [e EXCEPT !.specularColorFactor =
                  IF color # White THEN PyList(color) ELSE PyNone,
              !.extensions_needed = @ \/ color # White]

\* lines 81-88: the tint of a linked socket
export_specular_fac_color(e, fac_color) ==
    [e EXCEPT !.specularColorFactor =
                  IF fac_color # PyList(White) THEN fac_color ELSE PyNone,
              !.extensions_needed = @ \/ fac_color # PyList(White)]

\* lines 90-100: the texture of the tint
export_specular_color_texture(socket, e) ==
    IF gltf2_blender_get_has_image_node_from_socket(socket)
    THEN [e EXCEPT !.specularColorTexture =
                       gather_texture_info("specularColorTexture"),
                   !.extensions_needed = TRUE]
    ELSE e

\* lines 71-100: the tint
export_specular_tint(socket, e, fac_color) ==
    IF ~socket.is_linked
    THEN export_specular_color(
             e,
             IF e.fac # PyNone /\ e.fac.val[1] > Unit
             THEN Scaled(socket.default_value, e.fac.val[1])
             ELSE SubSeq(socket.default_value, 1, 3))
    ELSE export_specular_color_texture(
             socket,
             export_specular_fac_color(
                 e,
                 CASE fac_color # PyNone /\ e.fac # PyNone
                      /\ e.fac.val[1] > Unit ->
                        PyList(Scaled(fac_color.val, e.fac.val[1]))
                   [] fac_color = PyNone /\ e.fac # PyNone
                      /\ e.fac.val[1] > Unit ->
                        PyList(<<e.fac.val[1], e.fac.val[1], e.fac.val[1]>>)
                   [] OTHER -> fac_color))

\* return None, {}
NoExtension ==
    [extension |-> FALSE, specularFactor |-> PyAbsent,
     specularTexture |-> PyAbsent, specularColorFactor |-> PyAbsent,
     specularColorTexture |-> PyAbsent, uvmap_infos |-> {}]

\* lines 102-105
export_specular_return(e) ==
    IF ~e.extensions_needed
    THEN NoExtension
    ELSE [extension |-> TRUE, specularFactor |-> e.specularFactor,
          specularTexture |-> e.specularTexture,
          specularColorFactor |-> e.specularColorFactor,
          specularColorTexture |-> e.specularColorTexture,
          uvmap_infos |->
              (IF e.specularTexture # PyAbsent THEN {"specularTexture"}
               ELSE {})
              \cup (IF e.specularColorTexture # PyAbsent
                    THEN {"specularColorTexture"} ELSE {})]

export_specular_sockets(specular_socket, speculartint_socket) ==
    IF ~Present(specular_socket) \/ ~Present(speculartint_socket)
    THEN NoExtension
    ELSE export_specular_return(
             export_specular_tint(
                 speculartint_socket,
                 export_specular_strength(specular_socket),
                 gltf2_blender_get_get_factor_from_socket(
                     speculartint_socket)))

\* export_specular(blender_material, export_settings), lines 20-105
export_specular(blender_material) ==
    export_specular_sockets(
        gltf2_blender_get_get_socket(blender_material, "Specular IOR Level"),
        gltf2_blender_get_get_socket(blender_material, "Specular Tint"))

InitSpecular ==
    /\ \E s \in StrengthSockets, t \in TintSockets :
           scen = ("Specular IOR Level" :> s) @@ ("Specular Tint" :> t)
    /\ graph = [nodes |-> <<>>, links |-> {}]
    /\ heap = NoLists
    /\ sock = NodeSocket(NoSocket, 0)
    /\ last = [op |-> "material", ret |-> NoExtension]
    /\ NoCursors

ExportSpecular ==
    /\ last' = [op |-> "export_specular", ret |-> export_specular(scen)]
    /\ UNCHANGED <<graph, scen, heap, sock, nav, nav2, pre, pend>>

NextSpecular == ExportSpecular

SpecSpecular == InitSpecular /\ [][NextSpecular]_vars

Strength == scen["Specular IOR Level"]

Tint == scen["Specular Tint"]

\* both sockets exist and a strength value s was extracted: the default of
\* the unlinked input, or the factor of the linked one
HasStrength ==
    /\ Present(Strength)
    /\ Present(Tint)
    /\ Strength.is_linked => Strength.factor # PyNone

\* the extracted strength s
Extracted ==
    IF Strength.is_linked
    THEN Strength.factor.val[1]
    ELSE Strength.default_value[1]

\* a tint color was extracted
HasTint == Tint.is_linked => Tint.factor # PyNone

\* the extracted tint color
TintColor ==
    IF Tint.is_linked THEN Tint.factor.val
    ELSE SubSeq(Tint.default_value, 1, 3)

\* C17: the extracted specular strength s is doubled to f = 2 s;
\* specularFactor is emitted exactly if f < 1 and then equals f; for f > 1
\* no specularFactor is emitted and the specularColorFactor is the tint
\* scaled by f (left out where the scaled tint is white)
C17_DoubledStrength ==
    (last.op = "export_specular" /\ HasStrength)
    => /\ last.ret.specularFactor # PyAbsent <=> 2 * Extracted < Unit
       /\ 2 * Extracted < Unit
          => last.ret.specularFactor = PyFloat(2 * Extracted)
       /\ (2 * Extracted > Unit /\ HasTint)
          => IF Scaled(TintColor, 2 * Extracted) = White
             THEN last.ret.specularColorFactor \in {PyNone, PyAbsent}
             ELSE last.ret.specularColorFactor
                    = PyList(Scaled(TintColor, 2 * Extracted))

\* the strength is linked and its extracted factor is 1.0
LinkedAtOne == Strength.is_linked /\ Strength.factor = PyFloat(Unit)

\* the same for every strength but a linked one whose factor is 1.0
DoubledUnlessLinkedAtOne == ~LinkedAtOne => C17_DoubledStrength

\* a field of the extension holds a value
Filled(x) == x \notin {PyAbsent, PyNone}

\* C18: every KHR_materials_specular extension export_specular returns has
\* at least one of specularFactor, specularColorFactor, specularTexture and
\* specularColorTexture with a value other than None; where nothing differs
\* from the defaults it returns (None, {})
C18_NoEmptyExtension ==
    (last.op = "export_specular" /\ last.ret.extension)
    => \/ Filled(last.ret.specularFactor)
       \/ Filled(last.ret.specularColorFactor)
       \/ Filled(last.ret.specularTexture)
       \/ Filled(last.ret.specularColorTexture)

\* no tint color was extracted, or the tint scaled by the strength is white
TintLost ==
    /\ Present(Strength)
    /\ Present(Tint)
    /\ \/ ~HasTint
       \/ /\ last.ret.specularColorFactor = PyNone
          /\ TintColor # White

\* the same where a tint color was extracted and does not become white by
\* the scaling
FilledUnlessTintLost == ~TintLost => C18_NoEmptyExtension

(***************************************************************************)
(* Colour attribute detection: get_color_attrib on cursors of graphs whose  *)
(* alpha input is fed by colour attribute and attribute nodes, named and    *)
(* blank, directly, behind a multiply and through reroutes and groups.      *)
(***************************************************************************)
AttribProducers ==
    {VCol("Col"), VCol(""), Attr("Col"), Attr(""), Tex, Val(3), Third}

AttribFeeds ==
    AttribProducers
    \cup {Math("MULTIPLY", Third, Attr("")), Math("MULTIPLY", VCol(""), Third)}

RoutedAttribFeeds == {VCol("Col"), VCol(""), Attr("Col"), Attr("")}

AttribScenarios ==
    {Scenario(1, e, 0, <<>>, 0) : e \in AttribFeeds}
    \cup UNION {UNION {{Scenario(1, e, k, rt, d) :
                          k \in LinkCodes(e, 2), rt \in Routes(d)} :
                       d \in 0 .. MaxDepth} : e \in RoutedAttribFeeds}

InitAttrib ==
    /\ scen \in AttribScenarios
    /\ graph = Build(scen)
    /\ LET f == Fresh(to_node_nav((1 :> <<>>), InSock(RootId, scen.r),
                                  GroupPath(graph, RootId)))
       IN  /\ heap = f.heap
           /\ nav = f.nav
           /\ nav2 = f.nav2
           /\ pre = f.pre
    /\ last = Call("to_node_nav", SelNone, PyNone)
    /\ pend = Idle
    /\ sock = NodeSocket(InSock(RootId, scen.r), 0)

\* get_color_attrib(nav)
GetColorAttrib ==
    /\ Live
    /\ Returned("get_color_attrib", SelNone, get_color_attrib(graph, heap, nav))

NextAttrib ==
    \/ ToNodeNav
    \/ GetColorAttrib

SpecAttrib == InitAttrib /\ [][NextAttrib]_vars

\* the last call was get_color_attrib on a cursor whose selected input is
\* produced by a node of type ty
AttribOf(ty) ==
    /\ last.op = "get_color_attrib"
    /\ Producer.moved
    /\ IsNode(Producer.node, ty)

\* the name on the producing node: the layer of a colour attribute node,
\* the attribute of an attribute node
LayerName == graph.nodes[Producer.node].layer_name

AttributeName == graph.nodes[Producer.node].attribute_name

GeometryAttrib ==
    /\ AttribOf("ATTRIBUTE")
    /\ graph.nodes[Producer.node].attribute_type = "GEOMETRY"

\* C21 as stated: a colour attribute node yields its layer name, a geometry
\* attribute node yields its attribute name when that is not empty, and a
\* geometry attribute node with an empty name yields something other than
\* None
AttribBlankIsSignal ==
    /\ AttribOf("VERTEX_COLOR") => last.res = PyStr(LayerName)
    /\ (GeometryAttrib /\ AttributeName # "") => last.res = PyStr(AttributeName)
    /\ (GeometryAttrib /\ AttributeName = "") => last.res # PyNone

\* C21: get_color_attrib yields the layer name of a colour attribute node,
\* also when it is blank (the empty string, which is not None), the name of
\* a geometry attribute node when that is not empty, and None for a
\* geometry attribute node with an empty name, as for any producer that is
\* neither, and for an input that nothing produces
C21_ColorAttrib ==
    last.op = "get_color_attrib"
    => /\ AttribOf("VERTEX_COLOR") => last.res = PyStr(LayerName)
       /\ (GeometryAttrib /\ AttributeName # "") => last.res = PyStr(AttributeName)
       /\ (GeometryAttrib /\ AttributeName = "") => last.res = PyNone
       /\ (~AttribOf("VERTEX_COLOR") /\ ~AttribOf("ATTRIBUTE")) => last.res = PyNone

\* get_color_attrib was called on an input produced by a geometry attribute
\* node with an empty name, through a group boundary
BlankAttribAsked ==
    /\ GeometryAttrib
    /\ AttributeName = ""
    /\ scen.route # <<>>
    /\ last.res = PyNone

(***************************************************************************)
(* Alpha clip detection on its own: detect_alpha_clip on cursors of graphs  *)
(* whose alpha input is fed by the two clip idioms and by their near        *)
(* misses, directly and through reroutes and groups.                        *)
(***************************************************************************)
ClipFeeds ==
    {Tex, Third, Val(3),
     Math("ROUND", Tex, Third),
     Math("ROUND", Third, Third),
     Math("MULTIPLY", Third, Tex),
     Math("SUBTRACT", Full, Math("LESS_THAN", Tex, Third)),
     Math("SUBTRACT", Full, Math("GREATER_THAN", Third, Tex)),
     Math("SUBTRACT", Full, Math("LESS_THAN", Third, Tex)),
     Math("SUBTRACT", Full, Math("GREATER_THAN", Tex, Third)),
     Math("SUBTRACT", Full, Math("LESS_THAN", Tex, Tex)),
     Math("SUBTRACT", Full, Math("LESS_THAN", Third, Third)),
     Math("SUBTRACT", Full, Math("MULTIPLY", Tex, Third)),
     Math("SUBTRACT", Third, Math("LESS_THAN", Tex, Third)),
     Math("SUBTRACT", Tex, Math("LESS_THAN", Tex, Third)),
     Math("SUBTRACT", Full, Tex),
     Math("SUBTRACT", Full, Math("LESS_THAN", Tex, Val(3))),
     Math("SUBTRACT", Val(10), Math("LESS_THAN", Tex, Third))}

RoutedClipFeeds ==
    {Math("ROUND", Tex, Third),
     Math("SUBTRACT", Full, Math("LESS_THAN", Tex, Third)),
     Math("SUBTRACT", Full, Math("GREATER_THAN", Third, Tex)),
     Math("SUBTRACT", Full, Math("LESS_THAN", Third, Tex))}

ClipScenarios ==
    {Scenario(1, e, 0, <<>>, 0) : e \in ClipFeeds}
    \cup UNION {UNION {{Scenario(1, e, k, rt, d) :
                          k \in LinkCodes(e, 2), rt \in Routes(d)} :
                       d \in 0 .. MaxDepth} : e \in RoutedClipFeeds}

InitClip ==
    /\ scen \in ClipScenarios
    /\ graph = Build(scen)
    /\ LET f == Fresh(to_node_nav((1 :> <<>>), InSock(RootId, scen.r),
                                  GroupPath(graph, RootId)))
       IN  /\ heap = f.heap
           /\ nav = f.nav
           /\ nav2 = f.nav2
           /\ pre = f.pre
    /\ last = Call("to_node_nav", SelNone, PyNone)
    /\ pend = Idle
    /\ sock = NodeSocket(InSock(RootId, scen.r), 0)

\* detect_alpha_clip(nav); the cursor stays in use
DetectAlphaClip ==
    LET k == detect_alpha_clip(graph, heap, nav)
    IN  /\ Live
        /\ Commit(k.h, k.c, nav2, Call("detect_alpha_clip", SelNone, k.res))

NextClip ==
    \/ ToNodeNav
    \/ MoveBack
    \/ DetectAlphaClip

SpecClip == InitClip /\ [][NextClip]_vars

\* detect_alpha_clip returned a cutoff
Cutoff ==
    /\ last.op = "detect_alpha_clip"
    /\ last.res.kind = "float"

\* the node one step back from the cursor the call was given, and the node
\* one step back from input 1 of that
RoundNode == Producer.node

ComparisonNode == peek_back(graph, Peek.h, Peek.ret, SelInt(1)).ret.node

IsMath(n, op) == IsNode(n, "MATH") /\ graph.nodes[n].operation = op

\* the cursor is on node n with input i selected, having moved
SitsOn(n, i) ==
    /\ nav.node = n
    /\ nav.in_socket = InSock(n, i)
    /\ nav.moved

\* C23: detect_alpha_clip changes the cursor it is given exactly when it
\* returns a cutoff: on None the cursor's node, in_socket, out_socket, stack
\* and moved flag are as before the call; on a cutoff the cursor is on the
\* round node with input 0 selected, or on the comparison node with its
\* linked operand selected, input 0 for LESS_THAN and input 1 for
\* GREATER_THAN
C23_ClipMovesCursor ==
    last.op = "detect_alpha_clip"
    => /\ last.res = PyNone => View(heap, nav) = pre.nav
       /\ Cutoff => View(heap, nav) # pre.nav
       /\ Cutoff =>
            \/ IsMath(RoundNode, "ROUND") /\ SitsOn(RoundNode, 0)
            \/ /\ IsMath(RoundNode, "SUBTRACT")
               /\ IsMath(ComparisonNode, "LESS_THAN")
               /\ SitsOn(ComparisonNode, 0)
               /\ IsLinked(graph, nav.in_socket)
               /\ ~IsLinked(graph, InSock(ComparisonNode, 1))
            \/ /\ IsMath(RoundNode, "SUBTRACT")
               /\ IsMath(ComparisonNode, "GREATER_THAN")
               /\ SitsOn(ComparisonNode, 1)
               /\ IsLinked(graph, nav.in_socket)
               /\ ~IsLinked(graph, InSock(ComparisonNode, 0))

\* a cutoff was found on a GREATER_THAN comparison behind a group boundary,
\* by a cursor that had moved before
ClipFoundBehindGroup ==
    /\ Cutoff
    /\ IsMath(nav.node, "GREATER_THAN")
    /\ nav.in_socket = InSock(nav.node, 1)
    /\ pre.nav.stack # View(heap, nav).stack

\* no idiom was found on a subtraction from one of a comparison
ClipMissedOnComparison ==
    /\ last.op = "detect_alpha_clip"
    /\ last.res = PyNone
    /\ Producer.moved
    /\ IsMath(RoundNode, "SUBTRACT")
    /\ IsMath(ComparisonNode, "LESS_THAN")

(***************************************************************************)
(* The group path of a resolved socket.                                     *)
(***************************************************************************)
\* the list the last call of the resolver was given or returned
GroupPathList == heap[sock.group_path]

\* check_if_is_linked_to_active_output returned, without raising
TestedOutput ==
    /\ last.op = "check_if_is_linked_to_active_output"
    /\ ~last.raised

\* get_socket returned a socket
ResolvedSocket ==
    /\ last.op = "get_socket"
    /\ ~last.raised
    /\ sock.socket # NoSocket

\* the output the test started from is linked to an input of a group
\* instance
IntoGroup(soc) ==
    \E k \in 1 .. Len(Links(graph, soc)) :
        NodeType(graph, Links(graph, soc)[k].to_node) = "GROUP"

\* C24: check_if_is_linked_to_active_output leaves the list it is given as
\* it was, and the NodeSocket get_socket returns carries the chain of group
\* instances around the socket's node
C24_GroupPathKept ==
    /\ TestedOutput => GroupPathList = GroupPath(graph, sock.socket.node)
    /\ ResolvedSocket => GroupPathList = GroupPath(graph, sock.socket.node)

\* the same where the output of the node is not linked to a group instance
GroupPathKeptOutsideGroups ==
    /\ (TestedOutput /\ ~IntoGroup(sock.socket))
       => GroupPathList = GroupPath(graph, sock.socket.node)
    /\ (ResolvedSocket /\ ~IntoGroup(OutSock(sock.socket.node, 0)))
       => GroupPathList = GroupPath(graph, sock.socket.node)

\* the two halves of C24 on their own
ListKeptByTest == TestedOutput => GroupPathList = GroupPath(graph, sock.socket.node)

PathOfResolvedSocket == ResolvedSocket => GroupPathList = GroupPath(graph, sock.socket.node)

(***************************************************************************)
(* The two backward steps side by side: NodeNav.move_back from a selected   *)
(* input, and previous_socket on the NodeSocket of that input.              *)
(***************************************************************************)
RECURSIVE Enumerated(_)
\* the elements of a set in some order
Enumerated(S) ==
    IF S = {} THEN <<>>
    ELSE LET x == CHOOSE y \in S : TRUE
         IN  <<x>> \o Enumerated(S \ {x})

\* a graph with node_tree.nodes in an order
Ordered(g) ==
    [nodes |-> g.nodes, links |-> g.links, order |-> Enumerated(DOMAIN g.nodes)]

StepScenarios == {s \in Scenarios : s.code # 0 \/ s.e.kind \in {"DEFAULT", "TEX_IMAGE"}}

InitStep ==
    /\ scen \in StepScenarios
    /\ graph = Ordered(Build(scen))
    /\ LET f == Fresh(to_node_nav((1 :> <<>>), InSock(RootId, scen.r),
                                  GroupPath(graph, RootId)))
       IN  /\ heap = f.heap
           /\ nav = f.nav
           /\ nav2 = f.nav2
           /\ pre = f.pre
    /\ last = Call("to_node_nav", SelNone, PyNone)
    /\ pend = Idle
    /\ sock = NodeSocket(InSock(RootId, scen.r), 0)

\* the nodes of the frames of a stack: the group_path of a NodeSocket
FrameNodes(stack) == [k \in 1 .. Len(stack) |-> stack[k].node]

\* previous_socket returned p
PreviousFound(p) ==
    /\ sock' = NodeSocket(p.socket, IF p.socket = NoSocket THEN 0 ELSE NewRef(heap))
    /\ heap' = IF p.socket = NoSocket THEN heap ELSE heap @@ (NewRef(heap) :> p.group_path)
    /\ last' = [last EXCEPT !.op = "previous_socket",
                            !.res = IF p.raised THEN PyRaise ELSE PyNone]
    /\ UNCHANGED <<graph, scen, nav, nav2, pre, pend>>

\* previous_socket(NodeSocket(socket, group_path)) on the input the last
\* move_back left through, with the group path the cursor had on its stack
PreviousSocket ==
    /\ last.op = "move_back"
    /\ Selected # NoSocket
    /\ PreviousFound(previous_socket(graph, Selected, FrameNodes(pre.nav.stack)))

NextStep ==
    \/ ToNodeNav
    \/ MoveBack
    \/ PreviousSocket

SpecStep == InitStep /\ [][NextStep]_vars

\* no two inputs and no two outputs of a group node, a group input or a
\* group output bear the same name
UniqueNames(g) ==
    \A n \in DOMAIN g.nodes :
        g.nodes[n].type \in {"GROUP", "GROUP_INPUT", "GROUP_OUTPUT"}
        => /\ \A i, j \in DOMAIN g.nodes[n].inputs :
                 g.nodes[n].inputs[i].name = g.nodes[n].inputs[j].name => i = j
           /\ \A i, j \in DOMAIN g.nodes[n].outputs :
                 g.nodes[n].outputs[i].name = g.nodes[n].outputs[j].name => i = j

\* both steps were made from the same input
Compared ==
    /\ last.op = "previous_socket"
    /\ last.res # PyRaise
    /\ UniqueNames(graph)

\* C25: on a graph whose group sockets have unique names, previous_socket
\* returns the null socket exactly when move_back from the same input ends
\* with moved False, and otherwise returns the output the cursor arrived
\* through, with a group_path equal to the nodes of the cursor's stack
C25_BackwardStepsAgree ==
    Compared
    => /\ sock.socket = NoSocket <=> ~nav.moved
       /\ nav.moved
          => /\ sock.socket = nav.out_socket
             /\ heap[sock.group_path] = FrameNodes(heap[nav.stack])

\* previous_socket never raises where move_back returns
PreviousSocketReturns ==
    (last.op = "previous_socket" /\ UniqueNames(graph)) => last.res # PyRaise

\* both steps went into a group and found the producer there
AgreedInsideGroup ==
    /\ Compared
    /\ nav.moved
    /\ sock.socket = nav.out_socket
    /\ Len(heap[sock.group_path]) > Len(pre.nav.stack)

\* both steps ended on an unlinked input behind a group boundary
AgreedOnNothing ==
    /\ Compared
    /\ ~nav.moved
    /\ sock.socket = NoSocket
    /\ nav.node # pre.nav.node

(***************************************************************************)
(* The texture transform of a mapping node.  Numbers are fixed point in     *)
(* millionths; a quotient is kept as its two terms, so that the inverse of  *)
(* a scale at the threshold is exact.                                       *)
(***************************************************************************)
\* 1e-5, the threshold of lines 760 and 762
Epsilon == 10

\* 1.0
Whole == 100000 * Epsilon

HalfPi == TwoPi \div 4

abs(x) == IF x < 0 THEN 0 - x ELSE x

\* the number a / b
Quot(a, b) == [num |-> a, den |-> b]

Exact(x) == Quot(x, Whole)

\* sine and cosine of the rotations of the family: a quarter turn either
\* way, and angles below 1e-4, whose sine is the angle and whose cosine is 1
\* at this resolution
Sine(r) ==
    CASE r = HalfPi -> Whole
      [] r = 0 - HalfPi -> 0 - Whole
      [] OTHER -> r

Cosine(r) == IF abs(r) = HalfPi THEN 0 ELSE Whole

\* the product of a number and a sine or cosine
Product(a, t) ==
    CASE t = 0 -> 0
      [] t = Whole -> a
      [] t = 0 - Whole -> 0 - a
      [] OTHER -> (a * t) \div Whole

\* a Mapping node: its vector_type and the default values of its inputs
MappingNode(vector_type, rotation, location, scale) ==
    [type |-> "MAPPING", vector_type |-> vector_type,
     inputs |-> ("Rotation" :> rotation) @@ ("Location" :> location)
                @@ ("Scale" :> scale)]

\* what a call leaves: the line of the return (785 is the hand-over to
\* texture_transform_blender_to_gltf), whether a warning was printed, and
\* the mapping_transform it had assembled; what becomes of the dict from
\* line 785 on is the work of a conversion outside this file
Transform(line, warned, mapping_transform) ==
    [line |-> line, warned |-> warned, mapping_transform |-> mapping_transform]

\* the dict of lines 745-749; a VECTOR node has no offset yet
MappingTransform(offset, rotation, scale) ==
    [offset |-> offset, rotation |-> rotation, scale |-> scale]

\* inverted() with scales at or below the threshold refused
inverted_refusing_threshold(offset, rotation, scale) ==
    IF abs(rotation) > Epsilon /\ abs(scale[1] - scale[2]) > Epsilon
    THEN PyNone
    ELSE IF abs(scale[1]) <= Epsilon \/ abs(scale[2]) <= Epsilon
    THEN PyNone
    ELSE MappingTransform(
             <<Quot(0 - Product(offset[1], Cosine(rotation))
                      - Product(offset[2], Sine(rotation)), scale[1]),
               Quot(Product(offset[1], Sine(rotation))
                      - Product(offset[2], Cosine(rotation)), scale[2])>>,
             Exact(0 - rotation),
             <<Quot(Whole, scale[1]), Quot(Whole, scale[2])>>)

\* inverted(mapping_transform), lines 753-770: Matrix.Rotation(-rotation, 3,
\* 'Z') @ Vector((-offset[0], -offset[1], 1)), each component divided by
\* its scale
inverted(offset, rotation, scale) ==
    IF abs(rotation) > Epsilon /\ abs(scale[1] - scale[2]) > Epsilon
    THEN PyNone
    ELSE IF abs(scale[1]) < Epsilon \/ abs(scale[2]) < Epsilon
    THEN PyNone
    ELSE MappingTransform(
             <<Quot(0 - Product(offset[1], Cosine(rotation))
                      - Product(offset[2], Sine(rotation)), scale[1]),
               Quot(Product(offset[1], Sine(rotation))
                      - Product(offset[2], Cosine(rotation)), scale[2])>>,
             Exact(0 - rotation),
             <<Quot(Whole, scale[1]), Quot(Whole, scale[2])>>)

\* lines 772-778: the TEXTURE mode, m is inverted(mapping_transform)
get_texture_transform_from_mapping_node_texture(m) ==
    IF m = PyNone THEN Transform(778, TRUE, PyNone)
    ELSE Transform(785, FALSE, m)

\* lines 744-785 on the default values of the three inputs
get_texture_transform_from_mapping_node_assemble(vector_type, location, rotation, scale) ==
    CASE vector_type = "TEXTURE" ->
           get_texture_transform_from_mapping_node_texture(
               inverted(<<location[1], location[2]>>, rotation[3],
                        <<scale[1], scale[2]>>))
      [] vector_type = "VECTOR" ->
           Transform(785, FALSE,
                     MappingTransform(<<Exact(0), Exact(0)>>, Exact(rotation[3]),
                                      <<Exact(scale[1]), Exact(scale[2])>>))
      [] OTHER ->
           Transform(785, FALSE,
                     MappingTransform(<<Exact(location[1]), Exact(location[2])>>,
                                      Exact(rotation[3]),
                                      <<Exact(scale[1]), Exact(scale[2])>>))

\* get_texture_transform_from_mapping_node(mapping_node), lines 727-785
get_texture_transform_from_mapping_node(node) ==
    IF node.vector_type \notin {"TEXTURE", "POINT", "VECTOR"}
    THEN Transform(733, TRUE, PyNone)
    ELSE IF node.inputs["Rotation"][1] # 0 \/ node.inputs["Rotation"][2] # 0
    THEN Transform(743, TRUE, PyNone)
    ELSE get_texture_transform_from_mapping_node_assemble(
             node.vector_type, node.inputs["Location"],
             node.inputs["Rotation"], node.inputs["Scale"])

\* the mapping nodes of the family
VectorTypes == {"TEXTURE", "POINT", "VECTOR", "NORMAL"}

TiltAngles == {0, 1}

TurnAngles == {0, Epsilon \div 2, Epsilon, Epsilon + 1, 0 - (Epsilon + 1), HalfPi, 0 - HalfPi}

ScalesX ==
    {Whole, Whole + Epsilon, Whole + Epsilon + 1, 2 * Whole, 0,
     Epsilon - 1, Epsilon, 1 - Epsilon, 0 - Epsilon}

ScalesY == {Whole, 2 * Whole, Epsilon - 1, Epsilon}

Locations == {<<0, 0, 0>>, <<Whole \div 2, Whole \div 4, 0>>}

MappingNodes ==
    {MappingNode(v, <<rx, ry, rz>>, loc, <<sx, sy, Whole>>) :
        v \in VectorTypes, rx \in TiltAngles, ry \in TiltAngles,
        rz \in TurnAngles, loc \in Locations, sx \in ScalesX, sy \in ScalesY}

InitMapping ==
    /\ scen \in MappingNodes
    /\ graph = [nodes |-> <<>>, links |-> {}]
    /\ heap = NoLists
    /\ sock = NodeSocket(NoSocket, 0)
    /\ last = [op |-> "node", ret |-> Transform(0, FALSE, PyNone)]
    /\ NoCursors

GetTextureTransformFromMappingNode ==
    /\ last' = [op |-> "get_texture_transform_from_mapping_node",
                ret |-> get_texture_transform_from_mapping_node(scen)]
    /\ UNCHANGED <<graph, scen, heap, sock, nav, nav2, pre, pend>>

NextMapping == GetTextureTransformFromMappingNode

SpecMapping == InitMapping /\ [][NextMapping]_vars

\* the call returned None before it had a dict to convert
Declined == last.ret.line # 785

RotationOf(k) == scen.inputs["Rotation"][k]

ScaleOf(k) == scen.inputs["Scale"][k]

\* the inverse of the node's transform is no offset, rotation and scale
NotInvertible ==
    \/ abs(RotationOf(3)) > Epsilon /\ abs(ScaleOf(1) - ScaleOf(2)) > Epsilon
    \/ abs(ScaleOf(1)) < Epsilon
    \/ abs(ScaleOf(2)) < Epsilon

\* C22: get_texture_transform_from_mapping_node returns None, after a
\* warning, exactly when the vector type is none of TEXTURE, POINT and
\* VECTOR, or the X or Y rotation is not zero, or the type is TEXTURE and
\* the rotation exceeds 1e-5 while the scales differ by more than 1e-5, or
\* a scale is below 1e-5 in magnitude; and for a VECTOR node the offset it
\* goes on with is zero whatever the location
C22_MappingDeclines ==
    last.op = "get_texture_transform_from_mapping_node"
    => /\ Declined <=> \/ scen.vector_type \notin {"TEXTURE", "POINT", "VECTOR"}
                       \/ RotationOf(1) # 0
                       \/ RotationOf(2) # 0
                       \/ scen.vector_type = "TEXTURE" /\ NotInvertible
       /\ Declined <=> last.ret.warned
       /\ Declined <=> last.ret.mapping_transform = PyNone
       /\ (~Declined /\ scen.vector_type = "VECTOR")
          => last.ret.mapping_transform.offset = <<Exact(0), Exact(0)>>

\* a TEXTURE node with a scale exactly at the threshold was inverted
InvertedAtThreshold ==
    /\ last.op = "get_texture_transform_from_mapping_node"
    /\ scen.vector_type = "TEXTURE"
    /\ ScaleOf(1) = Epsilon
    /\ ~Declined
    /\ last.ret.mapping_transform.scale[1] = Quot(Whole, Epsilon)

\* a VECTOR node with a location went on with a zero offset
VectorWithLocation ==
    /\ last.op = "get_texture_transform_from_mapping_node"
    /\ scen.vector_type = "VECTOR"
    /\ scen.inputs["Location"][1] # 0
    /\ ~Declined
    /\ last.ret.mapping_transform.offset = <<Exact(0), Exact(0)>>

\* a TEXTURE node with a rotation and unequal scales was declined
TextureDeclined ==
    /\ last.op = "get_texture_transform_from_mapping_node"
    /\ scen.vector_type = "TEXTURE"
    /\ RotationOf(1) = 0
    /\ RotationOf(2) = 0
    /\ abs(RotationOf(3)) > Epsilon
    /\ abs(ScaleOf(1) - ScaleOf(2)) > Epsilon
    /\ last.ret.line = 778

====
